---- MODULE Spec2Model ----
(***************************************************************************)
(* Model of the billing endpoints of the Auto-Analyst front end: the       *)
(* webhook endpoint (auto-analyst-frontend/app/api/webhooks/route.ts), the *)
(* subscription finalization endpoint (app/api/create-subscription), the   *)
(* setup-intent endpoint (app/api/checkout-sessions) and the checkout      *)
(* session endpoint (app/api/create-checkout-session). One POST request is *)
(* one step. The key-value store holds, per user, a subscription hash and  *)
(* a credit hash, plus the customer index stripe:customer:<id> -> user.    *)
(* The billing system holds the subscriptions the handlers create,         *)
(* retrieve and cancel, and the customers, setup intents and checkout      *)
(* sessions the checkout endpoints create. Every store or billing call of  *)
(* a handler may throw.                                                    *)
(***************************************************************************)
EXTENDS Integers, Sequences, FiniteSets, TLC

VARIABLES
    cfg,         \* module-level configuration: stripe client, webhook secret
    index,       \* customer index: customer id -> user id, "" when unmapped
    sub,         \* user id -> subscription hash (empty function: no key)
    cred,        \* user id -> credit hash (empty function: no key)
    stripeSubs,  \* billing system: subscription id -> [customer, status]
    billing,     \* billing system: customers, setup intents, checkout sessions
    clock,       \* the instant the next request is handled at
    reported,    \* user id -> status the billing system last reported for it
    inflight,    \* the operations running concurrently, each at its next call
    last         \* the request handled last and what its handling did

vars ==
    <<cfg, index, sub, cred, stripeSubs, billing, clock, reported, inflight,
      last>>

-----------------------------------------------------------------------------
(* Bounds and small input sets *)

MaxClock == 2    \* requests handled in one behaviour (one instant each)

Users == {"user_42", "user_7"}
Customers == {"cus_1", "cus_9"}
SubIds == {"sub_1", "sub_9"}

\* what the billing system reports as a subscription's status
StripeStatuses == {"trialing", "active", "past_due", "canceled", "unpaid"}

NoHash == [f \in {} |-> ""]

\* a billing system with one customer and nothing created by the endpoints
NoBilling == [customers |-> {"ann@x.io"}, intents |-> <<>>, sessions |-> <<>>]

\* no operations running concurrently
Idle == [ops |-> <<>>, order |-> <<>>, start |-> <<>>]

\* new Date().toISOString(): the instant as text
ISO(t) == ToString(t)

Fields(h) == DOMAIN h

\* a hash field as the code reads it: undefined ("" here) when absent
Field(h, f) == IF f \in DOMAIN h THEN h[f] ELSE ""

\* redis.hset(key, fields): merge, the given fields win
Merge(h, upd) == upd @@ h

-----------------------------------------------------------------------------
(* Calls of a handler. A handler run carries the store, the billing system, *)
(* the calls made so far, and whether a call has thrown. The call whose     *)
(* number is failAt throws; a thrown call has no effect and nothing after   *)
(* it runs.                                                                 *)

Call(h, op, kind, id, fields) ==
    IF h.failed THEN h
    ELSE LET n == Len(h.trace) + 1
             c == [op |-> op, kind |-> kind, id |-> id, fields |-> fields,
                   ok |-> (n # h.failAt)]
         IN [h EXCEPT !.trace = Append(@, c), !.failed = (n = h.failAt)]

\* redis.get(`stripe:customer:${customerId}`)
RedisGet(h, customerId) == Call(h, "get", "index", customerId, {})

\* the lookup falling back to a fixed user when the customer is not mapped
UserKeyOrDefault(customerId) ==
    IF customerId \in DOMAIN index /\ index[customerId] # ""
    THEN index[customerId] ELSE "user_42"

\* the value redis.get returns: the mapped user, "" for null
UserKey(customerId) ==
    IF customerId \in DOMAIN index THEN index[customerId] ELSE ""

\* redis.hgetall(KEYS.USER_SUBSCRIPTION(userId))
RedisHGetAll(h, userId) == Call(h, "hgetall", "subscription", userId, {})

\* redis.hset(KEYS.USER_SUBSCRIPTION(userId), fields)
HSetSub(h, userId, upd) ==
    LET h1 == Call(h, "hset", "subscription", userId, DOMAIN upd)
    IN  IF h1.failed THEN h1
        ELSE [h1 EXCEPT !.sub[userId] = Merge(@, upd)]

\* redis.hset(KEYS.USER_CREDITS(userId), fields)
HSetCred(h, userId, upd) ==
    LET h1 == Call(h, "hset", "credits", userId, DOMAIN upd)
    IN  IF h1.failed THEN h1
        ELSE [h1 EXCEPT !.cred[userId] = Merge(@, upd)]

\* creditUtils.setZeroCredits(userId): zero(userId) of the credit ledger
SetZeroCredits(h, userId, now) ==
    HSetCred(h, userId,
             [total |-> "0", used |-> "0", resetDate |-> "", lastUpdate |-> now])

\* stripe.subscriptions.retrieve(id)
StripeRetrieve(h, id) == Call(h, "retrieve", "stripe", id, {})

\* stripe.subscriptions.cancel(id)
StripeCancel(h, id) ==
    LET h1 == Call(h, "cancel", "stripe", id, {})
    IN  IF h1.failed \/ id \notin DOMAIN h1.stripe THEN h1
        ELSE [h1 EXCEPT !.stripe[id].status = "canceled"]

\* NextResponse.json(body, {status}) at a return statement
Respond(h, status, received) ==
    IF h.failed THEN h
    ELSE [h EXCEPT !.resp = [status |-> status, received |-> received]]

Received(h) == Respond(h, 200, TRUE)

\* a catch block that swallows what the try block threw
Caught(h) == [h EXCEPT !.failed = FALSE]

\* what hgetall hands back: null (FALSE here) when the key holds no hash
HashFound(hash) == DOMAIN hash # {}

-----------------------------------------------------------------------------
(* The event handlers: the cases of switch (event.type) *)

\* case 'checkout.session.completed'
CheckoutCompleted(h, ev, now) == Received(h)

\* the update stamping the end of the trial on every active status
UpdateDataStampActive(currentStatus, status, now) ==
    [status |-> status, lastUpdated |-> now, stripeSubscriptionStatus |-> status]
    @@ (IF status = "active"
        THEN [trialEndedAt |-> now, trialToActiveDate |-> now] ELSE NoHash)
    @@ (IF status = "canceled" THEN [canceledAt |-> now] ELSE NoHash)
    @@ (IF status = "unpaid" \/ status = "past_due"
        THEN [unpaidAt |-> now] ELSE NoHash)

\* the update also recording the status it replaces
UpdateDataKeepPrevious(currentStatus, status, now) ==
    [status |-> status, lastUpdated |-> now, stripeSubscriptionStatus |-> status,
     previousStatus |-> currentStatus]
    @@ (IF currentStatus = "trialing" /\ status = "active"
        THEN [trialEndedAt |-> now, trialToActiveDate |-> now] ELSE NoHash)
    @@ (IF status = "canceled" THEN [canceledAt |-> now] ELSE NoHash)
    @@ (IF status = "unpaid" \/ status = "past_due"
        THEN [unpaidAt |-> now] ELSE NoHash)

UpdateData(currentStatus, status, now) ==
    [status |-> status, lastUpdated |-> now, stripeSubscriptionStatus |-> status]
    @@ (IF currentStatus = "trialing" /\ status = "active"
        THEN [trialEndedAt |-> now, trialToActiveDate |-> now] ELSE NoHash)
    @@ (IF status = "canceled" THEN [canceledAt |-> now] ELSE NoHash)
    @@ (IF status = "unpaid" \/ status = "past_due"
        THEN [unpaidAt |-> now] ELSE NoHash)

\* case 'customer.subscription.updated'
SubscriptionUpdated(h, ev, now) ==
    IF ev.customer = "" THEN Respond(h, 400, FALSE)
    ELSE LET h1 == RedisGet(h, ev.customer)
             userId == UserKey(ev.customer)
         IN  IF userId = "" THEN Received(h1)
             ELSE LET h2 == RedisHGetAll(h1, userId)
                      currentStatus == Field(h2.sub[userId], "status")
                      h3 == HSetSub(h2, userId,
                                    UpdateData(currentStatus, ev.status, now))
                  IN  Received(h3)

\* the cancellation write downgrading to the free plan instead of to no plan
CancelDataFree(now) ==
    [plan |-> "Free Plan", planType |-> "FREE", status |-> "canceled",
     amount |-> "0", interval |-> "month", lastUpdated |-> now,
     canceledAt |-> now, stripeCustomerId |-> "", stripeSubscriptionId |-> ""]

CancelData(now) ==
    [plan |-> "No Active Plan", planType |-> "NONE", status |-> "canceled",
     amount |-> "0", interval |-> "month", lastUpdated |-> now,
     canceledAt |-> now, stripeCustomerId |-> "", stripeSubscriptionId |-> ""]

DeletedCredits(now) ==
    [total |-> "0", used |-> "0", resetDate |-> "", lastUpdate |-> now,
     subscriptionDeleted |-> "true"]

\* the deletion handler dropping the customer's index entry as well
SubscriptionDeletedUnmapping(h, ev, now) ==
    IF ev.customer = "" THEN Respond(h, 400, FALSE)
    ELSE LET h1 == RedisGet(h, ev.customer)
             userId == UserKey(ev.customer)
         IN  IF userId = "" THEN Received(h1)
             ELSE LET h2 == RedisHGetAll(h1, userId)
                  IN  IF ~HashFound(h2.sub[userId]) THEN Received(h2)
                      ELSE LET h3 == SetZeroCredits(h2, userId, now)
                               h4 == HSetSub(h3, userId, CancelData(now))
                               h5 == Call(h4, "del", "index", ev.customer, {})
                           IN  Received(h5)

\* the deletion handler leaving a record alone that is canceled already
SubscriptionDeletedOnce(h, ev, now) ==
    IF ev.customer = "" THEN Respond(h, 400, FALSE)
    ELSE LET h1 == RedisGet(h, ev.customer)
             userId == UserKey(ev.customer)
         IN  IF userId = "" THEN Received(h1)
             ELSE LET h2 == RedisHGetAll(h1, userId)
                  IN  IF \/ ~HashFound(h2.sub[userId])
                         \/ Field(h2.sub[userId], "status") = "canceled"
                      THEN Received(h2)
                      ELSE LET h3 == SetZeroCredits(h2, userId, now)
                               h4 == HSetSub(h3, userId, CancelData(now))
                               h5 == HSetCred(h4, userId, DeletedCredits(now))
                           IN  Received(h5)

\* case 'customer.subscription.deleted'
SubscriptionDeleted(h, ev, now) ==
    IF ev.customer = "" THEN Respond(h, 400, FALSE)
    ELSE LET h1 == RedisGet(h, ev.customer)
             userId == UserKey(ev.customer)
         IN  IF userId = "" THEN Received(h1)
             ELSE LET h2 == RedisHGetAll(h1, userId)
                  IN  IF ~HashFound(h2.sub[userId]) THEN Received(h2)
                      ELSE LET h3 == SetZeroCredits(h2, userId, now)
                               h4 == HSetSub(h3, userId, CancelData(now))
                               h5 == HSetCred(h4, userId, DeletedCredits(now))
                           IN  Received(h5)

\* case 'customer.subscription.trial_will_end'
TrialWillEnd(h, ev, now) ==
    IF ev.customer = "" THEN Respond(h, 400, FALSE)
    ELSE Received(RedisGet(h, ev.customer))

\* the subscription object stripe.subscriptions.retrieve hands back
Retrieved(h, id) ==
    IF id \in DOMAIN h.stripe THEN h.stripe[id]
    ELSE [customer |-> "", status |-> ""]

\* the payment write setting active for the first payment too
PaymentSucceededDataActive(reason, status, now) ==
    IF reason = "subscription_cycle"
    THEN [status |-> "active", lastUpdated |-> now, trialEndedAt |-> now,
          lastPaymentDate |-> now, stripeSubscriptionStatus |-> status]
    ELSE IF reason = "subscription_create"
    THEN [status |-> "active", lastUpdated |-> now, initialPaymentDate |-> now,
          stripeSubscriptionStatus |-> status]
    ELSE [status |-> status, lastUpdated |-> now, lastPaymentDate |-> now,
          stripeSubscriptionStatus |-> status]

PaymentSucceededData(reason, status, now) ==
    IF reason = "subscription_cycle"
    THEN [status |-> "active", lastUpdated |-> now, trialEndedAt |-> now,
          lastPaymentDate |-> now, stripeSubscriptionStatus |-> status]
    ELSE IF reason = "subscription_create"
    THEN [status |-> status, lastUpdated |-> now, initialPaymentDate |-> now,
          stripeSubscriptionStatus |-> status]
    ELSE [status |-> status, lastUpdated |-> now, lastPaymentDate |-> now,
          stripeSubscriptionStatus |-> status]

\* the handler granting the plan's credits again once a payment succeeds
InvoicePaymentSucceededGranting(h, ev, now) ==
    IF ev.subscription = "" THEN Received(h)
    ELSE LET h1 == StripeRetrieve(h, ev.subscription)
             subscription == Retrieved(h1, ev.subscription)
             h2 == RedisGet(h1, subscription.customer)
             userId == UserKey(subscription.customer)
         IN  IF userId = "" THEN Received(h2)
             ELSE LET h3 == RedisHGetAll(h2, userId)
                      h4 == HSetSub(h3, userId,
                                PaymentSucceededData(ev.reason,
                                                     subscription.status, now))
                      h5 == HSetCred(h4, userId,
                                [total |-> "500", used |-> "0",
                                 lastUpdate |-> now])
                  IN  Received(h5)

\* case 'invoice.payment_succeeded'
InvoicePaymentSucceeded(h, ev, now) ==
    IF ev.subscription = "" THEN Received(h)
    ELSE LET h1 == StripeRetrieve(h, ev.subscription)
             subscription == Retrieved(h1, ev.subscription)
             h2 == RedisGet(h1, subscription.customer)
             userId == UserKey(subscription.customer)
         IN  IF userId = "" THEN Received(h2)
             ELSE LET h3 == RedisHGetAll(h2, userId)
                      h4 == HSetSub(h3, userId,
                                PaymentSucceededData(ev.reason,
                                                     subscription.status, now))
                  IN  Received(h4)

\* the failure write taking the plan away together with the status
PaymentFailedDataDowngrading(now) ==
    [status |-> "past_due", lastUpdated |-> now, paymentFailedAt |-> now,
     plan |-> "No Active Plan", planType |-> "NONE"]

PaymentFailedData(now) ==
    [status |-> "past_due", lastUpdated |-> now, paymentFailedAt |-> now]

\* the handler rejecting an invoice it does not act on
InvoicePaymentFailedStrict(h, ev, now) ==
    IF ev.subscription = "" \/ ev.reason # "subscription_cycle"
    THEN Respond(h, 400, FALSE)
    ELSE LET h1 == StripeRetrieve(h, ev.subscription)
             subscription == Retrieved(h1, ev.subscription)
             h2 == RedisGet(h1, subscription.customer)
             userId == UserKey(subscription.customer)
         IN  IF userId = "" THEN Received(h2)
             ELSE LET h3 == SetZeroCredits(h2, userId, now)
                      h4 == HSetSub(h3, userId, PaymentFailedData(now))
                  IN  Received(h4)

\* case 'invoice.payment_failed'
InvoicePaymentFailed(h, ev, now) ==
    IF ev.subscription = "" \/ ev.reason # "subscription_cycle" THEN Received(h)
    ELSE LET h1 == StripeRetrieve(h, ev.subscription)
             subscription == Retrieved(h1, ev.subscription)
             h2 == RedisGet(h1, subscription.customer)
             userId == UserKey(subscription.customer)
         IN  IF userId = "" THEN Received(h2)
             ELSE LET h3 == SetZeroCredits(h2, userId, now)
                      h4 == HSetSub(h3, userId, PaymentFailedData(now))
                  IN  Received(h4)

\* the user a payment-intent handler writes: paymentIntent.metadata?.userId
PaymentIntentUser(ev) == ev.metaUser

IntentFailedData(now) ==
    [status |-> "payment_failed", lastUpdated |-> now, paymentFailedAt |-> now,
     failureReason |-> "Payment authorization failed during trial signup"]

\* the failure handler acting on every payment intent that names a user
PaymentIntentFailedUngated(h, ev, now) ==
    IF PaymentIntentUser(ev) = "" THEN Received(h)
    ELSE LET userId == PaymentIntentUser(ev)
             h1 == SetZeroCredits(h, userId, now)
             h2 == HSetSub(h1, userId, IntentFailedData(now))
         IN  Received(h2)

\* case 'payment_intent.payment_failed'
PaymentIntentFailed(h, ev, now) ==
    IF ~ev.flag \/ PaymentIntentUser(ev) = "" THEN Received(h)
    ELSE LET userId == PaymentIntentUser(ev)
             h1 == SetZeroCredits(h, userId, now)
             h2 == HSetSub(h1, userId, IntentFailedData(now))
         IN  Received(h2)

IntentCanceledData(now) ==
    [status |-> "canceled", lastUpdated |-> now, canceledAt |-> now,
     cancelReason |-> "Payment intent canceled during trial signup"]

\* the cancellation handler leaving the credits as they are
PaymentIntentCanceledKeepCredits(h, ev, now) ==
    IF ~ev.flag \/ PaymentIntentUser(ev) = "" THEN Received(h)
    ELSE Received(HSetSub(h, PaymentIntentUser(ev), IntentCanceledData(now)))

\* case 'payment_intent.canceled'
PaymentIntentCanceled(h, ev, now) ==
    IF ~ev.flag \/ PaymentIntentUser(ev) = "" THEN Received(h)
    ELSE LET userId == PaymentIntentUser(ev)
             h1 == SetZeroCredits(h, userId, now)
             h2 == HSetSub(h1, userId, IntentCanceledData(now))
         IN  Received(h2)

SetupFailedData(now) ==
    [status |-> "setup_failed", lastUpdated |-> now, setupFailedAt |-> now,
     failureReason |-> "Payment method setup failed during trial signup"]

\* the try block cancelling the subscription before it resolves the user
SetupFailedTryCancelFirst(h, ev, now) ==
    LET h1 == StripeRetrieve(h, ev.subscription)
        subscription == Retrieved(h1, ev.subscription)
        h2 == StripeCancel(h1, ev.subscription)
        h3 == RedisGet(h2, subscription.customer)
        userId == UserKey(subscription.customer)
    IN  IF h3.failed \/ userId = "" THEN h3
        ELSE LET h4 == SetZeroCredits(h3, userId, now)
             IN  HSetSub(h4, userId, SetupFailedData(now))

\* the try block of case 'setup_intent.setup_failed'
SetupFailedTry(h, ev, now) ==
    LET h1 == StripeRetrieve(h, ev.subscription)
        subscription == Retrieved(h1, ev.subscription)
        h2 == RedisGet(h1, subscription.customer)
        userId == UserKey(subscription.customer)
    IN  IF h2.failed \/ userId = "" THEN h2
        ELSE LET h3 == StripeCancel(h2, ev.subscription)
                 h4 == SetZeroCredits(h3, userId, now)
             IN  HSetSub(h4, userId, SetupFailedData(now))

\* case 'setup_intent.setup_failed'
SetupIntentFailed(h, ev, now) ==
    IF ~ev.flag \/ ev.subscription = "" THEN Received(h)
    ELSE Received(Caught(SetupFailedTry(h, ev, now)))

\* case 'payment_intent.requires_action'
PaymentIntentRequiresAction(h, ev, now) == Received(h)

\* switch (event.type)
Dispatch(h, ev, now) ==
    CASE ev.type = "checkout.session.completed" -> CheckoutCompleted(h, ev, now)
      [] ev.type = "customer.subscription.updated" -> SubscriptionUpdated(h, ev, now)
      [] ev.type = "customer.subscription.deleted" -> SubscriptionDeleted(h, ev, now)
      [] ev.type = "customer.subscription.trial_will_end" -> TrialWillEnd(h, ev, now)
      [] ev.type = "invoice.payment_succeeded" -> InvoicePaymentSucceeded(h, ev, now)
      [] ev.type = "invoice.payment_failed" -> InvoicePaymentFailed(h, ev, now)
      [] ev.type = "payment_intent.payment_failed" -> PaymentIntentFailed(h, ev, now)
      [] ev.type = "payment_intent.canceled" -> PaymentIntentCanceled(h, ev, now)
      [] ev.type = "setup_intent.setup_failed" -> SetupIntentFailed(h, ev, now)
      [] ev.type = "payment_intent.requires_action" ->
             PaymentIntentRequiresAction(h, ev, now)
      [] OTHER -> Received(h)

-----------------------------------------------------------------------------
(* Requests *)

Event(type, customer, status, subscription, reason, flag, metaUser) ==
    [type |-> type, customer |-> customer, status |-> status,
     subscription |-> subscription, reason |-> reason, flag |-> flag,
     metaUser |-> metaUser]

\* event.data.object of each event type, over small sets of payloads:
\* customer, status: the subscription object's; subscription, reason: the
\* invoice's subscription and billing_reason (subscription also the setup
\* intent's metadata.subscription_id); flag: metadata.isTrial or
\* metadata.is_trial_setup being 'true'; metaUser: metadata.userId
EventsOf(type) ==
    CASE type = "customer.subscription.updated" ->
             {Event(type, "cus_1", s, "", "", FALSE, "") : s \in StripeStatuses}
             \cup {Event(type, c, "active", "", "", FALSE, "") : c \in {"", "cus_9"}}
      [] type \in {"customer.subscription.deleted",
                   "customer.subscription.trial_will_end"} ->
             {Event(type, c, "", "", "", FALSE, "") : c \in {""} \cup Customers}
      [] type = "invoice.payment_succeeded" ->
             {Event(type, "", "", "sub_1", r, FALSE, "") :
                 r \in {"subscription_cycle", "subscription_create", "manual"}}
             \cup {Event(type, "", "", s, "subscription_cycle", FALSE, "") :
                     s \in {"", "sub_9"}}
      [] type = "invoice.payment_failed" ->
             {Event(type, "", "", "sub_1", r, FALSE, "") :
                 r \in {"subscription_cycle", "subscription_create"}}
             \cup {Event(type, "", "", s, "subscription_cycle", FALSE, "") :
                     s \in {"", "sub_9"}}
      [] type \in {"payment_intent.payment_failed", "payment_intent.canceled"} ->
             {Event(type, "", "", "", "", TRUE, u) : u \in {""} \cup Users}
             \cup {Event(type, "", "", "", "", FALSE, "user_42")}
      [] type = "setup_intent.setup_failed" ->
             {Event(type, "", "", s, "", TRUE, "") : s \in {""} \cup SubIds}
             \cup {Event(type, "", "", "sub_1", "", FALSE, "")}
      [] OTHER -> {Event(type, "", "", "", "", FALSE, "")}

EventTypes ==
    {"checkout.session.completed", "customer.subscription.updated",
     "customer.subscription.deleted", "customer.subscription.trial_will_end",
     "invoice.payment_succeeded", "invoice.payment_failed",
     "payment_intent.payment_failed", "payment_intent.canceled",
     "setup_intent.setup_failed", "payment_intent.requires_action",
     "charge.refunded"}

\* the most calls one handler makes
MaxCalls == 5

\* a request: how it arrives (no stripe-signature header, a body that cannot
\* be read, a signature constructEvent rejects, or a verified event), the
\* event in its body, and the call of its handling that throws (0: none)
Request(how, event, nth) == [delivery |-> how, ev |-> event, failAt |-> nth]

Unverified == {"no_signature", "body_unreadable", "bad_signature"}

Start(req) ==
    [sub |-> sub, cred |-> cred, stripe |-> stripeSubs, trace |-> <<>>,
     failed |-> FALSE, failAt |-> req.failAt, dispatched |-> FALSE,
     resp |-> [status |-> 0, received |-> FALSE]]

\* the catch of POST logging the error and acknowledging the event
CatchAllAcknowledge(h) ==
    IF h.failed THEN [h EXCEPT !.resp = [status |-> 200, received |-> TRUE]]
    ELSE h

\* the catch of POST: whatever a handler threw becomes a 500
CatchAll(h) ==
    IF h.failed THEN [h EXCEPT !.resp = [status |-> 500, received |-> FALSE]]
    ELSE h

\* POST dispatching the body's event without verifying the signature
POSTUnverified(req, now) ==
    LET h == Start(req)
    IN  IF ~cfg.stripe THEN Respond(h, 500, FALSE)
        ELSE IF ~cfg.secret THEN Respond(h, 500, FALSE)
        ELSE IF req.delivery = "no_signature" THEN Respond(h, 400, FALSE)
        ELSE IF req.delivery = "body_unreadable" THEN Respond(h, 400, FALSE)
        ELSE CatchAll(Dispatch([h EXCEPT !.dispatched = TRUE], req.ev, now))

\* POST treating a missing webhook secret as a client error
POSTSecretAs400(req, now) ==
    LET h == Start(req)
    IN  IF ~cfg.stripe THEN Respond(h, 500, FALSE)
        ELSE IF ~cfg.secret THEN Respond(h, 400, FALSE)
        ELSE IF req.delivery = "no_signature" THEN Respond(h, 400, FALSE)
        ELSE IF req.delivery = "body_unreadable" THEN Respond(h, 400, FALSE)
        ELSE IF req.delivery = "bad_signature" THEN Respond(h, 400, FALSE)
        ELSE CatchAll(Dispatch([h EXCEPT !.dispatched = TRUE], req.ev, now))

\* export async function POST(request)
POST(req, now) ==
    LET h == Start(req)
    IN  IF ~cfg.stripe THEN Respond(h, 500, FALSE)
        ELSE IF ~cfg.secret THEN Respond(h, 500, FALSE)
        ELSE IF req.delivery = "no_signature" THEN Respond(h, 400, FALSE)
        ELSE IF req.delivery = "body_unreadable" THEN Respond(h, 400, FALSE)
        ELSE IF req.delivery = "bad_signature" THEN Respond(h, 400, FALSE)
        ELSE CatchAll(Dispatch([h EXCEPT !.dispatched = TRUE], req.ev, now))

Threw(trace) == \E i \in 1..Len(trace) : ~trace[i].ok

\* the calls of a trace that took effect
Done(trace, op, kind) ==
    {trace[i] : i \in {j \in 1..Len(trace) :
                          trace[j].ok /\ trace[j].op = op /\ trace[j].kind = kind}}

\* the subscription status the handler read off billing-system data
StatusRead(h, ev) ==
    IF ev.type = "customer.subscription.updated" THEN ev.status
    ELSE IF ev.type = "invoice.payment_succeeded"
    THEN Retrieved(h, ev.subscription).status
    ELSE ""

\* per user: the billing-system status of the last event that wrote the
\* user's status, and that event's type and billing reason
Reported(h, ev) ==
    [u \in Users |->
        IF \E c \in Done(h.trace, "hset", "subscription") :
               c.id = u /\ "status" \in c.fields
        THEN [status |-> IF StatusRead(h, ev) # "" THEN StatusRead(h, ev)
                         ELSE reported[u].status,
              by |-> ev.type, reason |-> ev.reason]
        ELSE reported[u]]

-----------------------------------------------------------------------------
(* The state machine *)

TrialSubscription ==
    [plan |-> "Standard", planType |-> "STANDARD", status |-> "trialing",
     amount |-> "15", interval |-> "month", purchaseDate |-> ISO(0),
     renewalDate |-> "2025-04-01", lastUpdated |-> ISO(0),
     stripeCustomerId |-> "cus_1", stripeSubscriptionId |-> "sub_1"]

TrialCredits ==
    [total |-> "500", used |-> "150", resetDate |-> "2025-04-01",
     lastUpdate |-> ISO(0)]

Init ==
    /\ cfg \in [stripe : BOOLEAN, secret : BOOLEAN]
    /\ index = [c \in Customers |-> IF c = "cus_1" THEN "user_42" ELSE ""]
    /\ \E s \in {NoHash, TrialSubscription} :
           sub = [u \in Users |-> IF u = "user_42" THEN s ELSE NoHash]
    /\ \E c \in {NoHash, TrialCredits} :
           cred = [u \in Users |-> IF u = "user_42" THEN c ELSE NoHash]
    /\ \E s \in {"trialing", "active"} :
           stripeSubs = [i \in SubIds |->
                           IF i = "sub_1"
                           THEN [customer |-> "cus_1", status |-> s]
                           ELSE [customer |-> "cus_9", status |-> "active"]]
    /\ billing = NoBilling
    /\ inflight = Idle
    /\ clock = 1
    /\ reported = [u \in Users |->
                     [status |-> Field(sub[u], "status"), by |-> "", reason |-> ""]]
    /\ last = [req |-> Request("none", Event("", "", "", "", "", FALSE, ""), 0),
               resp |-> [status |-> 0, received |-> FALSE],
               trace |-> <<>>, dispatched |-> FALSE]

\* one request handled to its response
Handle(req) ==
    LET h == POST(req, ISO(clock))
    IN  /\ req.failAt = 0 \/ Threw(h.trace)
        /\ sub' = h.sub
        /\ cred' = h.cred
        /\ stripeSubs' = h.stripe
        /\ reported' = Reported(h, req.ev)
        /\ last' = [req |-> req, resp |-> h.resp, trace |-> h.trace,
                    dispatched |-> h.dispatched]
        /\ clock' = clock + 1
        /\ UNCHANGED <<cfg, index, billing, inflight>>

\* a verified event of the given type, with or without a failing call
Deliver(type) ==
    \E e \in EventsOf(type) : \E k \in 0..MaxCalls :
        Handle(Request("verified", e, k))

\* a request that does not carry a verified event
Unsigned ==
    /\ clock <= MaxClock
    /\ \E d \in Unverified :
         \E e \in {Event("customer.subscription.deleted", "cus_1", "", "", "",
                          FALSE, ""),
                    Event("payment_intent.payment_failed", "", "", "", "",
                          TRUE, "user_7")} :
             Handle(Request(d, e, 0))

OnCheckoutCompleted ==
    /\ clock <= MaxClock
    /\ Deliver("checkout.session.completed")

OnSubscriptionUpdated ==
    /\ clock <= MaxClock
    /\ Deliver("customer.subscription.updated")

OnSubscriptionDeleted ==
    /\ clock <= MaxClock
    /\ Deliver("customer.subscription.deleted")

OnTrialWillEnd ==
    /\ clock <= MaxClock
    /\ Deliver("customer.subscription.trial_will_end")

OnInvoicePaymentSucceeded ==
    /\ clock <= MaxClock
    /\ Deliver("invoice.payment_succeeded")

OnInvoicePaymentFailed ==
    /\ clock <= MaxClock
    /\ Deliver("invoice.payment_failed")

OnPaymentIntentFailed ==
    /\ clock <= MaxClock
    /\ Deliver("payment_intent.payment_failed")

OnPaymentIntentCanceled ==
    /\ clock <= MaxClock
    /\ Deliver("payment_intent.canceled")

OnSetupIntentFailed ==
    /\ clock <= MaxClock
    /\ Deliver("setup_intent.setup_failed")

OnPaymentIntentRequiresAction ==
    /\ clock <= MaxClock
    /\ Deliver("payment_intent.requires_action")

\* an event type the switch has no case for
OnUnhandledType ==
    /\ clock <= MaxClock
    /\ Deliver("charge.refunded")

Next ==
    \/ Unsigned
    \/ OnCheckoutCompleted
    \/ OnSubscriptionUpdated
    \/ OnSubscriptionDeleted
    \/ OnTrialWillEnd
    \/ OnInvoicePaymentSucceeded
    \/ OnInvoicePaymentFailed
    \/ OnPaymentIntentFailed
    \/ OnPaymentIntentCanceled
    \/ OnSetupIntentFailed
    \/ OnPaymentIntentRequiresAction
    \/ OnUnhandledType

Spec == Init /\ [][Next]_vars

-----------------------------------------------------------------------------
(* What the last request did *)

Verified == last.req.delivery = "verified"

Configured == cfg.stripe /\ cfg.secret

Completed == last.dispatched /\ last.resp.received

\* the hset calls of the last request that took effect
Writes ==
    Done(last.trace, "hset", "subscription") \cup Done(last.trace, "hset", "credits")

SubscriptionTypes ==
    {"customer.subscription.updated", "customer.subscription.deleted",
     "customer.subscription.trial_will_end"}

-----------------------------------------------------------------------------
(* C1 *)

Unauthentic == last.req.delivery \in {"no_signature", "bad_signature"}

NothingDone == ~last.dispatched /\ last.trace = <<>>

\* C1 as stated: a request with no signature header or with a signature that
\* fails verification is answered 400, no handler is dispatched, and no store
\* or billing call is made.
C1_RejectedWith400 ==
    Unauthentic => last.resp.status = 400 /\ NothingDone

\* C1 as amended: such a request is answered 400 when the billing client and
\* the webhook secret are configured and 500 when either is not; in both
\* cases no handler is dispatched and no store or billing call is made.
C1_RejectedUnprocessed ==
    Unauthentic =>
        /\ last.resp.status = (IF Configured THEN 400 ELSE 500)
        /\ ~last.resp.received
        /\ NothingDone

\* a bad signature on a deletion event for a mapped customer with records
C1_Witness ==
    /\ last.req.delivery = "bad_signature"
    /\ last.req.ev.type = "customer.subscription.deleted"
    /\ Configured
    /\ last.resp.status = 400
    /\ Field(cred["user_42"], "total") = "500"
    /\ Field(sub["user_42"], "status") = "trialing"

-----------------------------------------------------------------------------
(* C2 *)

\* the step handles a verified 'subscription deleted' event of a mapped
\* customer to a {received: true} answer
DeletedStep ==
    /\ last'.req.delivery = "verified"
    /\ last'.req.ev.type = "customer.subscription.deleted"
    /\ last'.req.ev.customer \in DOMAIN index
    /\ index[last'.req.ev.customer] # ""
    /\ last'.dispatched /\ last'.resp.received

Zeroed(c) ==
    /\ Field(c, "total") = "0" /\ Field(c, "used") = "0"
    /\ "resetDate" \in DOMAIN c /\ c["resetDate"] = ""

Cancelled(r) ==
    /\ Field(r, "planType") = "NONE" /\ Field(r, "status") = "canceled"
    /\ Field(r, "amount") = "0"
    /\ "stripeCustomerId" \in DOMAIN r /\ r["stripeCustomerId"] = ""
    /\ "stripeSubscriptionId" \in DOMAIN r /\ r["stripeSubscriptionId"] = ""

\* C2 as stated: after a 'subscription deleted' event of a mapped customer
\* the user's credits are zeroed and the subscription record is reset to the
\* cancellation values, whatever the records held, also when no subscription
\* record existed.
C2_DeletedZeroesAlways ==
    [][DeletedStep =>
          LET u == index[last'.req.ev.customer]
          IN  Zeroed(cred'[u]) /\ Cancelled(sub'[u])]_vars

\* C2 as amended: the same, provided a subscription record existed for the
\* user before the event; when none existed the event is acknowledged and
\* neither record is written.
C2_DeletedZeroesExisting ==
    [][DeletedStep =>
          LET u == index[last'.req.ev.customer]
          IN  IF HashFound(sub[u])
              THEN Zeroed(cred'[u]) /\ Cancelled(sub'[u])
              ELSE sub' = sub /\ cred' = cred /\ Writes' = {}]_vars

\* a deletion that found a record and reset both hashes
C2_Witness ==
    /\ Verified /\ Completed
    /\ last.req.ev.type = "customer.subscription.deleted"
    /\ last.req.ev.customer = "cus_1"
    /\ Cardinality(Writes) = 3
    /\ Zeroed(cred["user_42"]) /\ Cancelled(sub["user_42"])
    /\ Field(sub["user_42"], "purchaseDate") # ""

-----------------------------------------------------------------------------
(* C3 *)

\* the step handles, without a failing call, the verified event that the
\* step before it handled without a failing call
Redelivery ==
    /\ last.req.delivery = "verified" /\ last.dispatched
    /\ ~Threw(last.trace)
    /\ last'.req.delivery = "verified" /\ last'.dispatched
    /\ ~Threw(last'.trace)
    /\ last'.req.ev = last.req.ev

\* the fields the handlers set to new Date().toISOString()
TimestampFields ==
    {"lastUpdated", "lastUpdate", "trialEndedAt", "trialToActiveDate",
     "canceledAt", "unpaidAt", "lastPaymentDate", "initialPaymentDate",
     "paymentFailedAt", "setupFailedAt"}

SameButStamps(a, b) ==
    /\ DOMAIN a = DOMAIN b
    /\ \A f \in DOMAIN a \ TimestampFields : a[f] = b[f]

\* C3 as stated: handling the same event a second time leaves the
\* subscription and credit records identical to what the first handling left.
C3_SecondIdentical ==
    [][Redelivery => sub' = sub /\ cred' = cred]_vars

\* C3 as amended: handling the same event a second time leaves both records
\* with the same fields and, in every field but the timestamps the handler
\* stamps with the time of handling, the same values.
C3_SecondSameButStamps ==
    [][Redelivery =>
          \A u \in Users : /\ SameButStamps(sub'[u], sub[u])
                            /\ SameButStamps(cred'[u], cred[u])]_vars

\* 'subscription updated' to active handled twice from a trialing record:
\* the second handling rewrote the record and left the trial stamps alone
C3_Witness ==
    /\ Verified /\ Completed /\ ~Threw(last.trace)
    /\ last.req.ev.type = "customer.subscription.updated"
    /\ last.req.ev.status = "active"
    /\ clock = 3
    /\ Field(sub["user_42"], "trialEndedAt") = ISO(1)
    /\ Field(sub["user_42"], "lastUpdated") = ISO(2)

-----------------------------------------------------------------------------
(* C4 *)

\* the event types whose handler looks the customer up in the index
ResolvingTypes ==
    SubscriptionTypes \cup {"invoice.payment_succeeded", "invoice.payment_failed",
                            "setup_intent.setup_failed"}

\* the last request looked a customer up that the index does not map
LookupUnmapped ==
    \E c \in Done(last.trace, "get", "index") :
        c.id \in DOMAIN index /\ index[c.id] = ""

Cancels == Done(last.trace, "cancel", "stripe")

\* C4: an event of a type that resolves its user through the Customer Index,
\* whose customer the index does not map, is answered {received: true}; no
\* store write is made and no cancel is sent to the billing system.
C4_UnmappedAcknowledged ==
    (Verified /\ last.dispatched /\ last.req.ev.type \in ResolvingTypes
       /\ LookupUnmapped)
    => /\ last.resp = [status |-> 200, received |-> TRUE]
       /\ Writes = {}
       /\ Cancels = {}

\* a failed trial setup whose subscription belongs to an unmapped customer
C4_Witness ==
    /\ Verified /\ last.dispatched /\ LookupUnmapped
    /\ last.req.ev.type = "setup_intent.setup_failed"
    /\ last.req.ev.subscription = "sub_9"
    /\ last.resp.received
    /\ stripeSubs["sub_9"].status = "active"
    /\ Len(last.trace) = 2

-----------------------------------------------------------------------------
(* C5 *)

Stored(u) == Field(sub[u], "status")

\* C5 as stated: a user's stored status is the status the billing system
\* last reported in an event handled for the user, unless the last event
\* that wrote it was a subscription deletion (canceled) or an explicit
\* failure event (payment_failed, setup_failed).
C5_StatusAsReported ==
    \A u \in Users :
        \/ Stored(u) = reported[u].status
        \/ /\ reported[u].by = "customer.subscription.deleted"
           /\ Stored(u) = "canceled"
        \/ /\ reported[u].by \in {"payment_intent.payment_failed",
                                  "setup_intent.setup_failed"}
           /\ Stored(u) \in {"payment_failed", "setup_failed"}

\* C5 as amended: a user's stored status is the status the billing system
\* last reported in an event handled for the user, unless the last event
\* that wrote it was a subscription deletion or a payment-intent
\* cancellation (canceled), an invoice payment failure (past_due), an invoice
\* payment success for a recurring cycle (active), a payment-intent failure
\* (payment_failed) or a setup-intent failure (setup_failed).
C5_StatusAsReportedOrForced ==
    \A u \in Users :
        \/ /\ reported[u].by \in {"", "customer.subscription.updated"}
           /\ Stored(u) = reported[u].status
        \/ /\ reported[u].by = "invoice.payment_succeeded"
           /\ Stored(u) = IF reported[u].reason = "subscription_cycle"
                          THEN "active" ELSE reported[u].status
        \/ /\ reported[u].by \in {"customer.subscription.deleted",
                                  "payment_intent.canceled"}
           /\ Stored(u) = "canceled"
        \/ /\ reported[u].by = "invoice.payment_failed"
           /\ Stored(u) = "past_due"
        \/ /\ reported[u].by = "payment_intent.payment_failed"
           /\ Stored(u) = "payment_failed"
        \/ /\ reported[u].by = "setup_intent.setup_failed"
           /\ Stored(u) = "setup_failed"

\* a first payment stored the status the billing system reported, trialing
C5_Witness ==
    /\ Verified /\ Completed
    /\ last.req.ev.type = "invoice.payment_succeeded"
    /\ last.req.ev.reason = "subscription_create"
    /\ reported["user_42"].by = "invoice.payment_succeeded"
    /\ reported["user_42"].status = "trialing"
    /\ Stored("user_42") = "trialing"
    /\ Field(sub["user_42"], "initialPaymentDate") = ISO(2)

-----------------------------------------------------------------------------
(* C6 *)

\* the status values that record a cancellation or a payment failure
LapsedStatuses ==
    {"canceled", "past_due", "unpaid", "payment_failed", "setup_failed"}

\* the last request wrote u's status, leaving a lapsed one
WroteLapsed(u) ==
    /\ \E c \in Done(last.trace, "hset", "subscription") :
           c.id = u /\ "status" \in c.fields
    /\ Stored(u) \in LapsedStatuses

\* C6 as stated: when a handler completes having written a lapsed status
\* for a user, the user's credit total is 0 (a user with no credit record
\* counted as having none).
C6_LapsedZeroesTotal ==
    \A u \in Users :
        (Verified /\ Completed /\ WroteLapsed(u))
        => Field(cred[u], "total") \in {"", "0"}

\* the event types whose handler stores the status the billing system reports
SyncingTypes == {"customer.subscription.updated", "invoice.payment_succeeded"}

\* C6 as amended: the same for every handler that forces a status
\* (subscription deleted, invoice payment failed, payment intent failed or
\* canceled, setup intent failed); the handlers that store the status the
\* billing system reports (subscription updated, invoice payment succeeded)
\* write a lapsed status without writing the credit record.
C6_ForcedLapseZeroesTotal ==
    \A u \in Users :
        (Verified /\ Completed /\ WroteLapsed(u))
        => IF last.req.ev.type \in SyncingTypes
           THEN Done(last.trace, "hset", "credits") = {}
           ELSE Field(cred[u], "total") = "0"

\* a cancelled trial payment intent at the second request took the credits
\* of a user who had 500 of them
C6_Witness ==
    /\ Verified /\ Completed /\ WroteLapsed("user_42")
    /\ last.req.ev.type = "payment_intent.canceled"
    /\ Field(cred["user_42"], "total") = "0"
    /\ Field(cred["user_42"], "lastUpdate") = ISO(2)
    /\ Field(sub["user_42"], "renewalDate") # ""

-----------------------------------------------------------------------------
(* C7 *)

\* the step handles a verified 'subscription updated' event of a mapped
\* customer to a {received: true} answer
UpdatedStep ==
    /\ last'.req.delivery = "verified"
    /\ last'.req.ev.type = "customer.subscription.updated"
    /\ last'.req.ev.customer \in DOMAIN index
    /\ index[last'.req.ev.customer] # ""
    /\ last'.dispatched /\ last'.resp.received

\* the subscription fields the calls of a trace wrote for u
WrittenIn(trace, u) ==
    UNION {c.fields : c \in {d \in Done(trace, "hset", "subscription") :
                                 d.id = u}}

Written(u) == WrittenIn(last.trace, u)

\* C7: after a 'subscription updated' event of a mapped customer the stored
\* status is the reported one and lastUpdated is rewritten; trialEndedAt and
\* trialToActiveDate are written iff the status stored before was trialing
\* and the reported one is active; canceledAt iff the reported status is
\* canceled; unpaidAt iff it is unpaid or past_due.
C7_UpdatedWrites ==
    [][UpdatedStep =>
          LET u == index[last'.req.ev.customer]
              status == last'.req.ev.status
              before == Field(sub[u], "status")
              w == WrittenIn(last'.trace, u)
          IN  /\ Field(sub'[u], "status") = status
              /\ "lastUpdated" \in w
              /\ Field(sub'[u], "lastUpdated") = ISO(clock)
              /\ "trialEndedAt" \in w <=> (before = "trialing" /\ status = "active")
              /\ "trialToActiveDate" \in w
                     <=> (before = "trialing" /\ status = "active")
              /\ "canceledAt" \in w <=> status = "canceled"
              /\ "unpaidAt" \in w <=> status \in {"unpaid", "past_due"}]_vars

\* an update to active on a record already active: no trial stamp written
C7_Witness ==
    /\ Verified /\ Completed
    /\ last.req.ev.type = "customer.subscription.updated"
    /\ last.req.ev.status = "active"
    /\ clock = 3
    /\ "trialEndedAt" \notin Written("user_42")
    /\ "lastUpdated" \in Written("user_42")
    /\ Field(sub["user_42"], "trialEndedAt") = ISO(1)

-----------------------------------------------------------------------------
(* C8 *)

\* the customer identifier an event leads to: the subscription payload's,
\* or that of the subscription the invoice or setup intent names
EventCustomer(ev) ==
    IF ev.type \in SubscriptionTypes THEN ev.customer
    ELSE IF ev.subscription \in DOMAIN stripeSubs
    THEN stripeSubs[ev.subscription].customer
    ELSE ""

\* the user the last request looked up in the Customer Index for its event
Resolved ==
    LET c == EventCustomer(last.req.ev)
    IN  IF c \in DOMAIN index
           /\ \E g \in Done(last.trace, "get", "index") : g.id = c
        THEN index[c] ELSE ""

\* C8 as stated: every record a handler writes belongs to the user the
\* Customer Index maps the event's customer identifier to.
C8_WritesResolvedUser ==
    \A w \in Writes : w.id = Resolved

IntentTypes == {"payment_intent.payment_failed", "payment_intent.canceled"}

\* C8 as amended: the same for every handler but those of 'payment intent
\* failed' and 'payment intent canceled', which make no lookup and write the
\* records of the user named in the event's metadata.
C8_WritesResolvedOrMetadataUser ==
    \A w \in Writes :
        IF last.req.ev.type \in IntentTypes
        THEN w.id = last.req.ev.metaUser /\ Done(last.trace, "get", "index") = {}
        ELSE w.id = Resolved

\* a failed invoice wrote both records of the user the index resolved
C8_Witness ==
    /\ Verified /\ Completed
    /\ last.req.ev.type = "invoice.payment_failed"
    /\ Resolved = "user_42"
    /\ Cardinality(Writes) = 2
    /\ \A w \in Writes : w.id = "user_42"

-----------------------------------------------------------------------------
(* C9 *)

\* the last request passed verification and no call of its handling threw
HandledCleanly == Verified /\ last.dispatched /\ ~Threw(last.trace)

\* C9 as stated: every event that passes verification and whose handling
\* meets no failing call is answered {received: true}, whatever its type and
\* payload.
C9_AlwaysAcknowledged ==
    HandledCleanly => last.resp = [status |-> 200, received |-> TRUE]

\* C9 as amended: the same, except that a 'subscription updated',
\* 'subscription deleted' or 'trial will end' event whose payload carries no
\* customer identifier is answered 400 and makes no call.
C9_AcknowledgedButNoCustomer ==
    HandledCleanly =>
        IF last.req.ev.type \in SubscriptionTypes /\ last.req.ev.customer = ""
        THEN /\ last.resp = [status |-> 400, received |-> FALSE]
             /\ last.trace = <<>>
        ELSE last.resp = [status |-> 200, received |-> TRUE]

\* an invoice failure that is not for a recurring cycle, acknowledged with
\* no call made
C9_Witness ==
    /\ HandledCleanly
    /\ last.req.ev.type = "invoice.payment_failed"
    /\ last.req.ev.reason = "subscription_create"
    /\ last.resp.received
    /\ last.trace = <<>>

-----------------------------------------------------------------------------
(* C10 *)

\* a call of the last request's handler threw
HandlerThrew == Verified /\ last.dispatched /\ Threw(last.trace)

\* C10 as stated: when a store or billing call fails inside a handler, the
\* setup-intent-failed handler included, the answer is a failure status and
\* never {received: true}.
C10_FailureNeverAcknowledged ==
    HandlerThrew => last.resp.status >= 400 /\ ~last.resp.received

\* C10 as amended: when a store or billing call fails inside a handler other
\* than the setup-intent-failed handler the answer is 500 and not {received:
\* true}; a call failing inside the setup-intent-failed handler is caught
\* there and the event is answered {received: true}.
C10_FailureIs500ButSetupIntent ==
    HandlerThrew =>
        IF last.req.ev.type = "setup_intent.setup_failed"
        THEN last.resp = [status |-> 200, received |-> TRUE]
        ELSE last.resp = [status |-> 500, received |-> FALSE]

\* a deletion whose last write threw after the first two took effect
C10_Witness ==
    /\ HandlerThrew
    /\ last.req.ev.type = "customer.subscription.deleted"
    /\ last.req.failAt = 5
    /\ last.resp.status = 500
    /\ Cardinality(Writes) = 2
    /\ Stored("user_42") = "canceled"

-----------------------------------------------------------------------------
(* C11 *)

Asked == last.req.delivery # "none"

\* C11 as stated: a request is answered 400 when its signature header is
\* missing or the webhook signing secret is missing, and 500 when the billing
\* client is unconfigured; in each of these cases no event is dispatched.
C11_SecretMissingIs400 ==
    Asked =>
        /\ (last.req.delivery = "no_signature" \/ ~cfg.secret)
               => last.resp.status = 400 /\ ~last.dispatched
        /\ ~cfg.stripe => last.resp.status = 500 /\ ~last.dispatched

\* C11 as amended: a request is answered 500 when the billing client or the
\* webhook signing secret is unconfigured, whatever its signature header, and
\* 400 when both are configured and the signature header is missing; in each
\* of these cases no event is dispatched.
C11_ConfigurationIs500 ==
    Asked =>
        /\ ~Configured => last.resp.status = 500 /\ ~last.dispatched
        /\ (Configured /\ last.req.delivery = "no_signature")
               => last.resp.status = 400 /\ ~last.dispatched

\* a verified deletion event reaching an endpoint that has its billing client
\* but no webhook secret: 500, and the user's credits are as they were
C11_Witness ==
    /\ Verified
    /\ cfg.stripe /\ ~cfg.secret
    /\ last.req.ev.type = "customer.subscription.deleted"
    /\ last.resp.status = 500
    /\ ~last.dispatched
    /\ Field(cred["user_42"], "total") = "500"

-----------------------------------------------------------------------------
(* The checkout endpoints: what they share *)

\* String.prototype.includes(p)
Includes(s, p) ==
    \E i \in 1..(Len(s) - Len(p) + 1) : SubSeq(s, i, i + Len(p) - 1) = p

\* the billing system's catalog: stripe.prices.retrieve(priceId)
Prices ==
    [price_std_m |-> [product |-> "prod_std", unit_amount |-> 1500,
                      interval |-> "month"],
     price_std_y |-> [product |-> "prod_std", unit_amount |-> 12600,
                      interval |-> "year"],
     price_ent_m |-> [product |-> "prod_ent", unit_amount |-> 20000,
                      interval |-> "month"],
     price_day   |-> [product |-> "prod_basic", unit_amount |-> 75,
                      interval |-> "day"],
     price_both  |-> [product |-> "prod_both", unit_amount |-> 0,
                      interval |-> "month"]]

\* stripe.products.retrieve(productId).name
Products ==
    [prod_std   |-> "Standard Plan",
     prod_ent   |-> "Auto-Analyst Enterprise",
     prod_basic |-> "Basic",
     prod_both  |-> "Enterprise to Standard Yearly"]

PriceIds == DOMAIN Prices

\* String(Date.now()): the instant in milliseconds, as text
EpochMs(t) == ToString(t) \o "000"

\* the run of a checkout endpoint's handler: like the webhook's, with the
\* customers, setup intents and checkout sessions of the billing system
Begin(req) ==
    [sub |-> sub, cred |-> cred, stripe |-> stripeSubs, billing |-> billing,
     trace |-> <<>>, failed |-> FALSE, failAt |-> req.failAt,
     resp |-> [status |-> 0, body |-> NoHash]]

\* NextResponse.json(body, {status}) at a return statement
Reply(h, status, body) ==
    IF h.failed THEN h
    ELSE [h EXCEPT !.resp = [status |-> status, body |-> body]]

\* await request.json()
RequestJson(h) == Call(h, "json", "request", "", {})

-----------------------------------------------------------------------------
(* The subscription finalization endpoint: create-subscription/route.ts *)

\* the most calls one finalization makes
MaxFinalizeCalls == 11

\* the promoCodeInfo of a request body: absent, or what the setup-intent
\* endpoint handed to the client
NoPromo ==
    [given |-> FALSE, promotionCode |-> "", discountValue |-> "",
     discountType |-> ""]

\* a finalization request: the user of the session token ("" without one),
\* the body, what the billing system answers (the setup intent retrieved,
\* whether the promotion code is found active, the subscription it creates),
\* and the call that throws (0: none)
FinalizeRequest(token, intentId, priceId, promo, intent, found, created, nth) ==
    [delivery |-> "finalize", token |-> token, setupIntentId |-> intentId,
     priceId |-> priceId, promoCodeInfo |-> promo, intent |-> intent,
     promoFound |-> found, created |-> created, failAt |-> nth]

\* stripe.setupIntents.retrieve(setupIntentId)
SetupIntentRetrieve(h, id) == Call(h, "retrieve", "setupIntent", id, {})

\* stripe.promotionCodes.list({code, active: true, limit: 1})
PromotionCodesList(h, code) == Call(h, "list", "promotionCode", code, {})

\* the id the billing system gives the next subscription it creates
NewSubId(stripe) == "sub_" \o ToString(100 + Cardinality(DOMAIN stripe))

\* stripe.subscriptions.create(subscriptionParams)
StripeCreate(h, customer, status, discounted) ==
    LET id == NewSubId(h.stripe)
        h1 == Call(h, "create", "subscription", id,
                   IF discounted THEN {"discounts"} ELSE {})
    IN  IF h1.failed THEN h1
        ELSE [h1 EXCEPT !.stripe =
                  (id :> [customer |-> customer, status |-> status]) @@ @]

\* the delete that leaves the key in place
RedisDelSkipped(h, userId) == Call(h, "del", "subscription", userId, {})

\* redis.del(KEYS.USER_SUBSCRIPTION(userId))
RedisDel(h, userId) ==
    LET h1 == Call(h, "del", "subscription", userId, {})
    IN  IF h1.failed THEN h1
        ELSE [h1 EXCEPT !.sub[userId] = NoHash]

\* stripe.prices.retrieve(priceId)
PricesRetrieve(h, priceId) == Call(h, "retrieve", "price", priceId, {})

\* stripe.products.retrieve(productId)
ProductsRetrieve(h, productId) == Call(h, "retrieve", "product", productId, {})

\* await getToken({ req: request })
GetToken(h) == Call(h, "getToken", "request", "", {})

\* the setup intent check passing whatever succeeded, paid for or not
IntentSucceeded(intent) == intent.status = "succeeded"

\* !(setupIntent.status !== 'succeeded' || !setupIntent.payment_method)
IntentUsable(intent) ==
    intent.status = "succeeded" /\ intent.payment_method # ""

\* promoCodeInfo && promoCodeInfo.promotionCode
PromoCoded(promo) == promo.given /\ promo.promotionCode # ""

\* const subscriptionData = {...}
SubscriptionData(id, created, priceId, promo, t) ==
    LET data == [id |-> id, stripeSubscriptionId |-> id,
                 status |-> created.status,
                 current_period_start |-> created.period_start,
                 current_period_end |-> created.period_end,
                 priceId |-> priceId, created |-> ToString(t)]
    IN  IF promo.given
        THEN [promoCodeApplied |-> "true",
              promoCodeValue |-> promo.discountValue,
              promoCodeType |-> promo.discountType] @@ data
        ELSE data

\* the credits by product name, asking for Enterprise first
CreditsEnterpriseFirst(name) ==
    IF name # "" /\ Includes(name, "Enterprise") THEN 2000
    ELSE IF name # "" /\ Includes(name, "Standard") THEN 500
    ELSE 20

\* let credits = 0; if (product.name && product.name.includes(...)) ...
Credits(name) ==
    IF name # "" /\ Includes(name, "Standard") THEN 500
    ELSE IF name # "" /\ Includes(name, "Enterprise") THEN 2000
    ELSE 20

\* the fields of redis.hset(KEYS.USER_CREDITS(userId), {...})
CreditData(credits, t) ==
    [total |-> ToString(credits), available |-> ToString(credits),
     used |-> "0", lastReset |-> EpochMs(t)]

\* the clearing that takes the user's credit record along
ClearExistingAndCredits(h, userId) ==
    LET h1 == RedisHGetAll(h, userId)
        h2 == IF ~h1.failed /\ HashFound(h1.sub[userId])
              THEN RedisDel(h1, userId) ELSE h1
        h3 == Call(h2, "del", "credits", userId, {})
    IN  IF h3.failed THEN h3 ELSE [h3 EXCEPT !.cred[userId] = NoHash]

\* the existing subscription data cleared before the new data is written
ClearExisting(h, userId) ==
    LET h1 == RedisHGetAll(h, userId)
    IN  IF ~h1.failed /\ HashFound(h1.sub[userId]) THEN RedisDel(h1, userId)
        ELSE h1

\* the body of try in POST
CreateSubscriptionTry(h, req, t) ==
    LET h0 == GetToken(h)
    IN  IF req.token = "" THEN Reply(h0, 401, [error |-> "Unauthorized"])
        ELSE IF ~cfg.stripe
        THEN Reply(h0, 500, [error |-> "Stripe not configured"])
        ELSE
        LET h1 == RequestJson(h0)
        IN  IF req.setupIntentId = "" \/ req.priceId = ""
            THEN Reply(h1, 400, [error |-> "Missing required parameters"])
            ELSE
            LET h2 == SetupIntentRetrieve(h1, req.setupIntentId)
            IN  IF ~IntentUsable(req.intent)
                THEN Reply(h2, 400,
                           [error |-> "Invalid setup intent: status="
                                      \o req.intent.status])
                ELSE
                LET userId == req.token
                    promo == req.promoCodeInfo
                    h3 == IF PromoCoded(promo)
                          THEN PromotionCodesList(h2, promo.promotionCode)
                          ELSE h2
                    id == NewSubId(h3.stripe)
                    h4 == StripeCreate(h3, req.intent.customer,
                                       req.created.status,
                                       PromoCoded(promo) /\ req.promoFound)
                    h5 == ClearExisting(h4, userId)
                    h6 == HSetSub(h5, userId,
                                  SubscriptionData(id, req.created, req.priceId,
                                                   promo, t))
                    h7 == PricesRetrieve(h6, req.priceId)
                    product == Prices[req.priceId].product
                    h8 == ProductsRetrieve(h7, product)
                    credits == Credits(Products[product])
                    h9 == IF credits > 0
                          THEN HSetCred(h8, userId, CreditData(credits, t))
                          ELSE h8
                IN  Reply(h9, 200,
                          [success |-> "true", subscriptionId |-> id,
                           status |-> req.created.status,
                           promoCodeApplied |->
                               IF promo.given THEN "true" ELSE "false"])

\* catch (error) of POST: the error's message with status 500
CreateSubscriptionCatch(h) ==
    IF h.failed
    THEN [h EXCEPT !.resp = [status |-> 500,
                             body |-> [error |-> "Failed to create subscription"]]]
    ELSE h

\* export async function POST(request) of create-subscription/route.ts
CreateSubscription(req, t) ==
    CreateSubscriptionCatch(CreateSubscriptionTry(Begin(req), req, t))

-----------------------------------------------------------------------------
(* The checkout session endpoint: create-checkout-session/route.ts *)

\* the most calls one checkout session request makes
MaxCheckoutCalls == 3

\* getServerSession() returning null
NoSession == [present |-> FALSE, id |-> "", email |-> ""]

\* a checkout session request: the server session, the body, and the call
\* that throws (0: none)
CheckoutRequest(session, priceId, userId, email, nth) ==
    [delivery |-> "checkout", session |-> session, priceId |-> priceId,
     userId |-> userId, email |-> email, failAt |-> nth]

\* await getServerSession()
GetServerSession(h) == Call(h, "getServerSession", "request", "", {})

\* the session check letting everyone through
LoggedInAnyone(session) == TRUE

\* !(!session)
LoggedIn(session) == session.present

\* a || b on strings
Or(a, b) == IF a # "" THEN a ELSE b

\* stripe.checkout.sessions.create({...})
CheckoutSessionsCreate(h, priceId, userId, email) ==
    LET id == "cs_" \o ToString(Len(h.billing.sessions) + 1)
        h1 == Call(h, "create", "session", id, {})
    IN  IF h1.failed THEN h1
        ELSE [h1 EXCEPT !.billing.sessions =
                  Append(@, [id |-> id, price |-> priceId, userId |-> userId,
                             customer_email |-> email,
                             allow_promotion_codes |-> TRUE])]

\* the body of try in POST
CreateCheckoutSessionTry(h, req) ==
    IF ~cfg.stripe
    THEN Reply(h, 500, [error |-> "Stripe configuration error"])
    ELSE
    LET h1 == RequestJson(h)
    IN  IF req.priceId = ""
        THEN Reply(h1, 400, [error |-> "Price ID is required"])
        ELSE
        LET h2 == GetServerSession(h1)
        IN  IF ~LoggedIn(req.session)
            THEN Reply(h2, 401, [error |-> "You must be logged in to subscribe"])
            ELSE
            LET id == "cs_" \o ToString(Len(h2.billing.sessions) + 1)
                h3 == CheckoutSessionsCreate(h2, req.priceId,
                                             Or(req.userId, req.session.id),
                                             Or(req.email, req.session.email))
            IN  Reply(h3, 200, [clientSecret |-> id \o "_secret", id |-> id])

\* catch (error) of POST: the error's message with status 500
CreateCheckoutSessionCatch(h) ==
    IF h.failed
    THEN [h EXCEPT !.resp =
              [status |-> 500,
               body |-> [error |->
                   "Something went wrong with the checkout process"]]]
    ELSE h

\* export async function POST(request) of create-checkout-session/route.ts
CreateCheckoutSession(req) ==
    CreateCheckoutSessionCatch(CreateCheckoutSessionTry(Begin(req), req))

-----------------------------------------------------------------------------
(* The state machine of the checkout endpoints *)

\* the metadata the setup-intent endpoint gave user_42's setup intent: the
\* monthly Standard price, no promotion code validated
PlainMetadata == [priceId |-> "price_std_m", userId |-> "user_42"]

GoodIntent ==
    [status |-> "succeeded", payment_method |-> "pm_1", customer |-> "cus_1",
     metadata |-> PlainMetadata]

\* the setup intent of a customer the setup-intent endpoint created
NewIntent ==
    [status |-> "succeeded", payment_method |-> "pm_9", customer |-> "cus_9",
     metadata |-> [priceId |-> "price_ent_m", userId |-> "user_7",
                   promotionCode |-> "SAVE20"]]

\* setup intents the finalization must turn down
BadIntents ==
    {[status |-> "requires_payment_method", payment_method |-> "",
      customer |-> "cus_1", metadata |-> PlainMetadata],
     [status |-> "succeeded", payment_method |-> "", customer |-> "cus_1",
      metadata |-> PlainMetadata],
     [status |-> "processing", payment_method |-> "pm_1",
      customer |-> "cus_1", metadata |-> PlainMetadata]}

Promo20 ==
    [given |-> TRUE, promotionCode |-> "SAVE20", discountValue |-> "0.2",
     discountType |-> "percentage"]

\* a promoCodeInfo object that carries no code
PromoBare ==
    [given |-> TRUE, promotionCode |-> "", discountValue |-> "",
     discountType |-> ""]

\* the subscription the billing system creates: its status and its period,
\* which the API version in use may leave undefined
CreatedActive ==
    [status |-> "active", period_start |-> "1700000000",
     period_end |-> "1702592000"]

CreatedIncomplete ==
    [status |-> "incomplete", period_start |-> "", period_end |-> ""]

\* promoCodeInfo, whether the code is found active, the subscription created
Variants ==
    {<<NoPromo, FALSE, CreatedActive>>, <<Promo20, TRUE, CreatedActive>>,
     <<PromoBare, FALSE, CreatedIncomplete>>}

FinalizeRequests ==
    {FinalizeRequest("", "seti_1", "price_std_m", NoPromo, GoodIntent, FALSE,
                     CreatedActive, k) : k \in 0..1}
    \cup {FinalizeRequest("user_42", f[1], f[2], NoPromo, GoodIntent, FALSE,
                          CreatedActive, 0) :
              f \in {<<"", "price_std_m">>, <<"seti_1", "">>}}
    \cup {FinalizeRequest("user_42", "seti_1", "price_std_m", NoPromo, i, FALSE,
                          CreatedActive, 0) : i \in BadIntents}
    \cup {FinalizeRequest("user_42", "seti_1", p, v[1], GoodIntent, v[2], v[3],
                          0) : p \in PriceIds, v \in Variants}
    \cup {FinalizeRequest("user_7", "seti_1", "price_ent_m", Promo20, NewIntent,
                          FALSE, CreatedIncomplete, 0)}
    \cup {FinalizeRequest("user_42", "seti_1", "price_std_m", Promo20,
                          GoodIntent, TRUE, CreatedActive, k) :
              k \in 1..MaxFinalizeCalls}

AnnSession == [present |-> TRUE, id |-> "user_42", email |-> "ann@x.io"]

CheckoutRequests ==
    {CheckoutRequest(s, p, "", "", 0) :
         s \in {NoSession, AnnSession}, p \in {"", "price_std_m"}}
    \cup {CheckoutRequest(NoSession, "price_ent_m", "user_7", "bob@x.io", 0),
          CheckoutRequest(AnnSession, "price_ent_m", "user_7", "bob@x.io", 0)}
    \cup {CheckoutRequest(s, "price_std_m", "", "", k) :
              s \in {NoSession, AnnSession}, k \in 1..MaxCheckoutCalls}

\* one request of a checkout endpoint handled to its response by the run h
Served(req, h) ==
    /\ req.failAt = 0 \/ Threw(h.trace)
    /\ sub' = h.sub
    /\ cred' = h.cred
    /\ stripeSubs' = h.stripe
    /\ billing' = h.billing
    /\ reported' =
           [u \in Users |->
               IF \E c \in Done(h.trace, "hset", "subscription") : c.id = u
               THEN [status |-> Field(h.sub[u], "status"),
                     by |-> req.delivery, reason |-> ""]
               ELSE reported[u]]
    /\ last' = [req |-> req, resp |-> h.resp, trace |-> h.trace,
                dispatched |-> FALSE,
                before |-> [sub |-> sub, cred |-> cred, stripe |-> stripeSubs,
                            billing |-> billing]]
    /\ clock' = clock + 1
    /\ UNCHANGED <<cfg, index, inflight>>

OnCreateSubscription ==
    /\ clock <= MaxClock
    /\ \E r \in FinalizeRequests : Served(r, CreateSubscription(r, clock))

OnCreateCheckoutSession ==
    /\ clock <= MaxClock
    /\ \E r \in CheckoutRequests : Served(r, CreateCheckoutSession(r))

\* the endpoints with or without their billing client; the user with or
\* without the records of a trial
InitCheckout ==
    /\ cfg \in [stripe : BOOLEAN, secret : {TRUE}]
    /\ index = [c \in Customers |-> IF c = "cus_1" THEN "user_42" ELSE ""]
    /\ \E r \in {<<NoHash, NoHash>>, <<TrialSubscription, TrialCredits>>} :
           /\ sub = [u \in Users |-> IF u = "user_42" THEN r[1] ELSE NoHash]
           /\ cred = [u \in Users |-> IF u = "user_42" THEN r[2] ELSE NoHash]
    /\ stripeSubs = [i \in SubIds |->
                       IF i = "sub_1"
                       THEN [customer |-> "cus_1", status |-> "trialing"]
                       ELSE [customer |-> "cus_9", status |-> "active"]]
    /\ billing = NoBilling
    /\ inflight = Idle
    /\ clock = 1
    /\ reported = [u \in Users |->
                     [status |-> Field(sub[u], "status"), by |-> "", reason |-> ""]]
    /\ last = [req |-> Request("none", Event("", "", "", "", "", FALSE, ""), 0),
               resp |-> [status |-> 0, received |-> FALSE],
               trace |-> <<>>, dispatched |-> FALSE]

NextCheckout ==
    \/ OnCreateSubscription
    \/ OnCreateCheckoutSession

SpecCheckout == InitCheckout /\ [][NextCheckout]_vars

\* every endpoint that reaches the store, configured, for a user on trial
InitSystem ==
    /\ InitCheckout
    /\ cfg.stripe
    /\ HashFound(sub["user_42"])

NextSystem ==
    \/ Next
    \/ NextCheckout

SpecSystem == InitSystem /\ [][NextSystem]_vars

-----------------------------------------------------------------------------
(* C12 *)

\* the keys a request deleted
Deleted(trace) ==
    Done(trace, "del", "subscription") \cup Done(trace, "del", "credits")

\* C12 as stated: no step removes a subscription record or a credit record
\* that exists, and no step deletes a key.
C12_NeverRemoved ==
    [][/\ \A u \in Users :
             /\ HashFound(sub[u]) => HashFound(sub'[u])
             /\ HashFound(cred[u]) => HashFound(cred'[u])
       /\ Deleted(last'.trace) = {}]_vars

\* C12 as amended: no step removes a credit record, and no webhook or
\* checkout session request deletes a key or removes a subscription record.
\* A finalization deletes only the subscription key of its caller, and only
\* when the key held a record; answered with success it leaves a record
\* under the key, and the record is gone after it only when the call that
\* follows the delete threw (status 500).
C12_RemovedOnlyByFinalization ==
    [][/\ \A u \in Users : HashFound(cred[u]) => HashFound(cred'[u])
       /\ Done(last'.trace, "del", "credits") = {}
       /\ last'.req.delivery # "finalize" =>
              /\ Deleted(last'.trace) = {}
              /\ \A u \in Users : HashFound(sub[u]) => HashFound(sub'[u])
       /\ last'.req.delivery = "finalize" =>
              /\ \A c \in Done(last'.trace, "del", "subscription") :
                     c.id = last'.req.token /\ HashFound(sub[c.id])
              /\ last'.resp.status = 200 => HashFound(sub'[last'.req.token])
              /\ \A u \in Users :
                     HashFound(sub[u]) /\ ~HashFound(sub'[u]) =>
                         /\ u = last'.req.token
                         /\ last'.resp.status = 500
                         /\ Threw(last'.trace)]_vars

\* a successful finalization for a user on trial: the key was deleted and
\* the trial's plan field is gone from the record
C12_Witness ==
    /\ last.req.delivery = "finalize"
    /\ last.resp.status = 200
    /\ Done(last.trace, "del", "subscription") # {}
    /\ Field(last.before.sub["user_42"], "plan") = "Standard"
    /\ HashFound(sub["user_42"])
    /\ "plan" \notin Fields(sub["user_42"])

-----------------------------------------------------------------------------
(* C13 *)

Finalized == last.req.delivery = "finalize"

\* the last request left both records of every user and the billing
\* system's subscriptions as they were
Untouched ==
    /\ sub = last.before.sub
    /\ cred = last.before.cred
    /\ stripeSubs = last.before.stripe

\* C13: a finalization creates a subscription or writes a record only if the
\* setup intent it retrieved has status succeeded and a payment method; a
\* finalization that retrieved any other setup intent is answered 400,
\* creates no subscription and leaves every record unchanged.
C13_OnlySucceededIntent ==
    Finalized =>
        /\ ~Untouched =>
               /\ last.req.intent.status = "succeeded"
               /\ last.req.intent.payment_method # ""
        /\ (/\ Done(last.trace, "retrieve", "setupIntent") # {}
            /\ \/ last.req.intent.status # "succeeded"
               \/ last.req.intent.payment_method = "")
           => /\ last.resp.status = 400
              /\ Untouched
              /\ Done(last.trace, "create", "subscription") = {}
              /\ Writes = {}

\* a succeeded setup intent without a payment method, presented by a user
\* on trial: 400 and the trial's records as they were
C13_Witness ==
    /\ Finalized
    /\ last.req.intent.status = "succeeded"
    /\ last.req.intent.payment_method = ""
    /\ last.resp.status = 400
    /\ Field(sub["user_42"], "status") = "trialing"
    /\ Field(cred["user_42"], "used") = "150"

-----------------------------------------------------------------------------
(* C14 *)

\* a finalization answered with success
FinalizedOk == Finalized /\ last.resp.status = 200

\* the name of the product of the price the last request asked for
ProductName == Products[Prices[last.req.priceId].product]

\* C14: after a finalization answered with success the caller's subscription
\* record holds exactly the fields that finalization wrote (none of the
\* record it found survives), its status is the status of the subscription
\* created, and the credit record has the total of the plan and used = 0.
C14_RecordIsTheNewOne ==
    FinalizedOk =>
        LET u == last.req.token
            id == last.resp.body.subscriptionId
            written == SubscriptionData(id, last.req.created, last.req.priceId,
                                        last.req.promoCodeInfo, clock - 1)
        IN  /\ sub[u] = written
            /\ \A f \in Fields(last.before.sub[u]) \ Fields(written) :
                   f \notin Fields(sub[u])
            /\ id \in DOMAIN stripeSubs \ DOMAIN last.before.stripe
            /\ Field(sub[u], "status") = stripeSubs[id].status
            /\ Field(cred[u], "total") =
                   (IF Includes(ProductName, "Standard") THEN "500"
                    ELSE IF Includes(ProductName, "Enterprise") THEN "2000"
                    ELSE "20")
            /\ Field(cred[u], "used") = "0"

\* a user on trial, 150 credits used, finalizes an Enterprise subscription
C14_Witness ==
    /\ FinalizedOk
    /\ last.req.token = "user_42"
    /\ Field(last.before.sub["user_42"], "plan") = "Standard"
    /\ Field(last.before.cred["user_42"], "used") = "150"
    /\ "plan" \notin Fields(sub["user_42"])
    /\ Field(sub["user_42"], "status") = "active"
    /\ Field(cred["user_42"], "total") = "2000"
    /\ Field(cred["user_42"], "used") = "0"

-----------------------------------------------------------------------------
(* The webhook's subscription update helper: updateUserSubscription of     *)
(* webhooks/route.ts. No case of the switch calls it; it is applied here   *)
(* on its own.                                                             *)

\* the most calls one run of the helper makes
MaxHelperCalls == 7

LowerOf ==
    [A |-> "a", B |-> "b", C |-> "c", D |-> "d", E |-> "e", F |-> "f",
     G |-> "g", H |-> "h", I |-> "i", J |-> "j", K |-> "k", L |-> "l",
     M |-> "m", N |-> "n", O |-> "o", P |-> "p", Q |-> "q", R |-> "r",
     S |-> "s", T |-> "t", U |-> "u", V |-> "v", W |-> "w", X |-> "x",
     Y |-> "y", Z |-> "z"]

RECURSIVE ToLowerCase(_)
\* String.prototype.toLowerCase()
ToLowerCase(s) ==
    IF Len(s) = 0 THEN ""
    ELSE LET c == SubSeq(s, 1, 1)
         IN  (IF c \in DOMAIN LowerOf THEN LowerOf[c] ELSE c)
                 \o ToLowerCase(SubSeq(s, 2, Len(s)))

\* calendar days a request may arrive on
Dates ==
    {[y |-> 2025, m |-> 3, d |-> 20], [y |-> 2025, m |-> 1, d |-> 31],
     [y |-> 2024, m |-> 2, d |-> 29], [y |-> 2025, m |-> 12, d |-> 31]}

Leap(y) == (y % 4 = 0 /\ y % 100 # 0) \/ y % 400 = 0

DaysIn(y, m) ==
    IF m = 2 THEN (IF Leap(y) THEN 29 ELSE 28)
    ELSE IF m \in {4, 6, 9, 11} THEN 30
    ELSE 31

\* the carry of Date's setters: a month past December moves into the next
\* year, a day past the month's end into the next month
Normalize(y, m, d) ==
    LET yy == IF m > 12 THEN y + 1 ELSE y
        mm == IF m > 12 THEN m - 12 ELSE m
    IN  IF d <= DaysIn(yy, mm) THEN [y |-> yy, m |-> mm, d |-> d]
        ELSE IF mm = 12
        THEN [y |-> yy + 1, m |-> 1, d |-> d - DaysIn(yy, mm)]
        ELSE [y |-> yy, m |-> mm + 1, d |-> d - DaysIn(yy, mm)]

Pad2(n) == IF n < 10 THEN "0" \o ToString(n) ELSE ToString(n)

\* date.toISOString().split('T')[0]
DateText(date) ==
    ToString(date.y) \o "-" \o Pad2(date.m) \o "-" \o Pad2(date.d)

\* tomorrow.setDate(tomorrow.getDate() + 1)
Tomorrow(date) == Normalize(date.y, date.m, date.d + 1)

\* creditUtils.getNextMonthFirstDay(): the first day of the next calendar
\* month, as a date text
GetNextMonthFirstDay(date) == DateText(Normalize(date.y, date.m + 1, 1))

\* CreditConfig.getCreditsForPlan(planName): the plan table of the credit
\* ledger
GetCreditsForPlan(planName) ==
    IF Includes(planName, "Standard")
    THEN [total |-> 500, type |-> "STANDARD"]
    ELSE IF Includes(planName, "Enterprise")
    THEN [total |-> 2000, type |-> "ENTERPRISE"]
    ELSE [total |-> 20, type |-> "FREE"]

\* let interval = 'month'; if (planName.toLowerCase().includes('yearly') ...
Interval(planName, price) ==
    IF Includes(ToLowerCase(planName), "yearly") \/ price.interval = "year"
    THEN "year"
    ELSE IF Includes(ToLowerCase(planName), "daily") \/ price.interval = "day"
    THEN "day"
    ELSE "month"

\* (price.unit_amount / 100).toString()
Amount(cents) ==
    LET whole == ToString(cents \div 100)
        rest == cents % 100
    IN  IF rest = 0 THEN whole
        ELSE IF rest % 10 = 0 THEN whole \o "." \o ToString(rest \div 10)
        ELSE whole \o "." \o Pad2(rest)

\* renewalDate.setMonth / setFullYear / setDate
RenewalDate(interval, date) ==
    IF interval = "month" THEN Normalize(date.y, date.m + 1, date.d)
    ELSE IF interval = "year" THEN Normalize(date.y + 1, date.m, date.d)
    ELSE Normalize(date.y, date.m, date.d + 1)

\* a call of the helper: the user, the checkout session, the price ids of its
\* line items, the e-mail of the user's profile, the day, and the call that
\* throws (0: none)
GrantRequest(userId, session, items, email, today, nth) ==
    [delivery |-> "helper", userId |-> userId, session |-> session,
     items |-> items, profileEmail |-> email, today |-> today, failAt |-> nth]

\* let resetDate = creditUtils.getNextMonthFirstDay(); if (interval === 'day')
ResetDate(interval, date) ==
    IF interval = "day" THEN DateText(Tomorrow(date))
    ELSE GetNextMonthFirstDay(date)

\* the body of try in updateUserSubscription
UpdateUserSubscriptionTry(h, req, now) ==
    LET h1 == Call(h, "listLineItems", "session", req.session.id, {})
    IN  IF req.items = <<>> THEN Reply(h1, 0, [returned |-> "false"])
        ELSE IF req.items[1] = "" THEN Reply(h1, 0, [returned |-> "false"])
        ELSE
        LET priceId == req.items[1]
            h2 == PricesRetrieve(h1, priceId)
            price == Prices[priceId]
            h3 == ProductsRetrieve(h2, price.product)
            planName == Products[price.product]
            interval == Interval(planName, price)
            planCredits == GetCreditsForPlan(planName)
            h4 == HSetSub(h3, req.userId,
                    [plan |-> planName, planType |-> planCredits.type,
                     status |-> "active",
                     amount |-> Amount(price.unit_amount),
                     interval |-> interval, purchaseDate |-> now,
                     renewalDate |-> DateText(RenewalDate(interval, req.today)),
                     lastUpdated |-> now,
                     stripeCustomerId |-> req.session.customer,
                     stripeSubscriptionId |-> req.session.subscription])
            h5 == HSetCred(h4, req.userId,
                    [total |-> ToString(planCredits.total), used |-> "0",
                     resetDate |-> ResetDate(interval, req.today),
                     lastUpdate |-> now])
            h6 == IF req.session.customer_email = ""
                  THEN Call(h5, "getUserProfile", "profile", req.userId, {})
                  ELSE h5
            userEmail == Or(req.session.customer_email, req.profileEmail)
            h7 == IF userEmail # ""
                  THEN Call(h6, "sendSubscriptionConfirmation", "email",
                            userEmail, {})
                  ELSE h6
        IN  Reply(h7, 0, [returned |-> "true"])

\* catch (error) of updateUserSubscription: return false
UpdateUserSubscriptionCatch(h) ==
    IF h.failed
    THEN [h EXCEPT !.resp = [status |-> 0, body |-> [returned |-> "false"]]]
    ELSE h

\* async function updateUserSubscription(userId, session)
UpdateUserSubscription(req, now) ==
    UpdateUserSubscriptionCatch(UpdateUserSubscriptionTry(Begin(req), req, now))

\* a completed checkout session of customer cus_1
PaidSession(email) ==
    [id |-> "cs_1", customer |-> "cus_1", subscription |-> "sub_1",
     customer_email |-> email]

GrantRequests ==
    {GrantRequest("user_42", PaidSession("ann@x.io"), i, "", d, 0) :
         i \in {<<>>, <<"">>}, d \in {CHOOSE x \in Dates : x.d = 20}}
    \cup {GrantRequest("user_42", PaidSession("ann@x.io"), <<p>>, "", d, 0) :
              p \in PriceIds, d \in Dates}
    \cup {GrantRequest("user_7", PaidSession(""), <<"price_day">>, e, d, 0) :
              e \in {"", "bob@x.io"}, d \in Dates}
    \cup {GrantRequest("user_7", PaidSession(""), <<"price_std_y">>, "bob@x.io",
                       CHOOSE x \in Dates : x.m = 12, k) :
              k \in 1..MaxHelperCalls}

\* the finalizations that go through without a promotion code
GrantingFinalizations ==
    {r \in FinalizeRequests :
         /\ r.failAt = 0
         /\ r.token # ""
         /\ r.setupIntentId # "" /\ r.priceId # ""
         /\ r.intent = GoodIntent
         /\ ~r.promoCodeInfo.given}

OnUpdateUserSubscription ==
    /\ clock <= MaxClock
    /\ \E r \in GrantRequests : Served(r, UpdateUserSubscription(r, ISO(clock)))

OnGrantingFinalization ==
    /\ clock <= MaxClock
    /\ \E r \in GrantingFinalizations : Served(r, CreateSubscription(r, clock))

\* the billing client configured; the user with or without a trial's records
InitGrant ==
    /\ InitCheckout
    /\ cfg.stripe

NextGrant ==
    \/ OnUpdateUserSubscription
    \/ OnGrantingFinalization

SpecGrant == InitGrant /\ [][NextGrant]_vars

-----------------------------------------------------------------------------
(* C15 *)

\* the user the last request granted credits to, "" when it granted none
Grantee ==
    IF Done(last.trace, "hset", "credits") = {} THEN ""
    ELSE IF last.req.delivery = "finalize" THEN last.req.token
    ELSE IF last.req.delivery = "helper" THEN last.req.userId
    ELSE ""

\* the product name the last grant went by
GrantedName ==
    IF last.req.delivery = "finalize"
    THEN Products[Prices[last.req.priceId].product]
    ELSE Products[Prices[last.req.items[1]].product]

ProductNames == {Products[p] : p \in DOMAIN Products}

-----------------------------------------------------------------------------
(* C16 *)

\* the first day of the month after the date's
FirstOfNextMonth(date) ==
    IF date.m = 12 THEN [y |-> date.y + 1, m |-> 1, d |-> 1]
    ELSE [y |-> date.y, m |-> date.m + 1, d |-> 1]

\* the day after the date
NextDay(date) ==
    IF date.d < DaysIn(date.y, date.m)
    THEN [y |-> date.y, m |-> date.m, d |-> date.d + 1]
    ELSE FirstOfNextMonth(date)

\* C16 as stated: every grant, in the finalization and in the webhook's
\* helper, writes total, used = 0, lastUpdate and resetDate, and the helper's
\* resetDate is the next day for a day-interval price and the first day of
\* the next month for a month- or year-interval price.
C16_GrantWritesResetDate ==
    Grantee # "" =>
        /\ \A c \in Done(last.trace, "hset", "credits") :
               {"total", "used", "lastUpdate", "resetDate"} \subseteq c.fields
        /\ Field(cred[Grantee], "used") = "0"
        /\ last.req.delivery = "helper" =>
               Field(cred[Grantee], "resetDate") =
                   (IF Prices[last.req.items[1]].interval = "day"
                    THEN DateText(NextDay(last.req.today))
                    ELSE DateText(FirstOfNextMonth(last.req.today)))

-----------------------------------------------------------------------------
(* The setup-intent endpoint: checkout-sessions/route.ts *)

\* setup-intent requests handled in one behaviour
MaxSetups == 1

\* the most calls one setup-intent request makes
MaxSetupCalls == 10

\* coupon.applies_to: absent, or with a products list and a prices list,
\* each of them undefined or a list of ids
AppliesTo(given, products, prices) ==
    [given |-> given, products |-> products, prices |-> prices]

Undefined == [given |-> FALSE, list |-> <<>>]

List(ids) == [given |-> TRUE, list |-> ids]

\* a coupon: amount_off and percent_off are 0 when null
Coupon(appliesTo, amountOff, percentOff) ==
    [applies_to |-> appliesTo, amount_off |-> amountOff,
     percent_off |-> percentOff]

\* what promotionCodes.list finds for the code: nothing, or a promotion code
\* object, expired or not, with its coupon
PromotionCode(found, expired, coupon) ==
    [found |-> found, expired |-> expired, coupon |-> coupon]

\* a setup-intent request: the body, what the billing system holds for the
\* promotion code, and the call that throws (0: none)
SetupRequest(priceId, promotionCode, userId, code, nth) ==
    [delivery |-> "setup", priceId |-> priceId, promotionCode |-> promotionCode,
     userId |-> userId, code |-> code, failAt |-> nth]

\* a return from inside a try block whose catch has swallowed the error
Return(h, status, body) == Reply(Caught(h), status, body)

\* the last call made did not find its object: it throws
NotFound(h) ==
    IF h.failed THEN h
    ELSE [h EXCEPT !.trace[Len(h.trace)].ok = FALSE, !.failed = TRUE]

\* stripe.customers.list({email: userId, limit: 1})
CustomersList(h, email) == Call(h, "list", "customer", email, {})

\* stripe.customers.create({email: userId})
CustomersCreate(h, email) ==
    LET h1 == Call(h, "create", "customer", email, {})
    IN  IF h1.failed THEN h1
        ELSE [h1 EXCEPT !.billing.customers = @ \cup {email}]

\* Create or get customer for the user
CustomerFor(h, email) ==
    LET h1 == CustomersList(h, email)
    IN  IF ~h1.failed /\ email \notin h1.billing.customers
        THEN CustomersCreate(h1, email)
        ELSE h1

\* stripe.coupons.retrieve(promotionCodeObj.coupon.id, {expand})
CouponsRetrieve(h) == Call(h, "retrieve", "coupon", "", {})

\* stripe.setupIntents.create(setupIntentParams)
SetupIntentsCreate(h, customer, metadata) ==
    LET id == "seti_" \o ToString(Len(h.billing.intents) + 1)
        h1 == Call(h, "create", "setupIntent", id, DOMAIN metadata)
    IN  IF h1.failed THEN h1
        ELSE [h1 EXCEPT !.billing.intents =
                  Append(@, [id |-> id, customer |-> customer,
                             metadata |-> metadata])]

RECURSIVE Join(_, _)
\* Array.prototype.join(sep)
Join(names, sep) ==
    IF names = <<>> THEN ""
    ELSE IF Len(names) = 1 THEN names[1]
    ELSE names[1] \o sep \o Join(Tail(names), sep)

\* Array.prototype.includes
Has(list, x) == \E i \in 1..Len(list) : list[i] = x

\* the names of the allowed products left unasked
NoProductNames(h, ids, names) == [h |-> h, names |-> names]

RECURSIVE AllowedProductNames(_, _, _)
\* for (const allowedProductId of allowedProductIds): the names of the
\* products that could be retrieved; a retrieval that throws is skipped
AllowedProductNames(h, ids, names) ==
    IF ids = <<>> THEN [h |-> h, names |-> names]
    ELSE LET h1 == ProductsRetrieve(h, Head(ids))
             h2 == IF Head(ids) \in DOMAIN Products THEN h1 ELSE NotFound(h1)
         IN  AllowedProductNames(
                 Caught(h2), Tail(ids),
                 IF h2.failed THEN names
                 ELSE Append(names, Products[Head(ids)]))

\* Math.round(x / 100) of a number that is not negative
RoundedPercent(x) == (x + 50) \div 100

\* Calculate discount amount
DiscountAmount(coupon, price) ==
    IF coupon.amount_off # 0 THEN coupon.amount_off
    ELSE IF coupon.percent_off # 0
    THEN RoundedPercent(price.unit_amount * coupon.percent_off)
    ELSE 0

\* a response has been returned
Responded(h) == h.resp.status # 0

\* Check product restrictions
ProductRestriction(h, req, price) ==
    LET products == req.code.coupon.applies_to.products
    IN  IF /\ products.given
           /\ Len(products.list) > 0
           /\ ~Has(products.list, price.product)
        THEN LET r == AllowedProductNames(h, products.list, <<>>)
             IN  Reply(r.h, 400,
                    [error |->
                       IF Len(r.names) > 0
                       THEN "This promo code is valid only for "
                            \o Join(r.names, " and ")
                            \o " and does not apply to your selected "
                            \o price.interval \o " plan."
                       ELSE "This promo code is not valid for the selected plan."])
        ELSE h

\* the price check taking an empty list for no restriction
PriceRestrictionLenient(h, req, price) ==
    LET prices == req.code.coupon.applies_to.prices
    IN  IF prices.given /\ Len(prices.list) > 0
           /\ ~Has(prices.list, req.priceId)
        THEN Reply(h, 400,
                   [error |->
                      "This promo code is not valid for the selected billing cycle"])
        ELSE h

\* Check price restrictions
PriceRestriction(h, req, price) ==
    LET prices == req.code.coupon.applies_to.prices
    IN  IF ~prices.given THEN h
        ELSE IF Len(prices.list) > 0
        THEN IF Has(prices.list, req.priceId) THEN h
             ELSE LET h1 == PricesRetrieve(h, req.priceId)
                      h2 == ProductsRetrieve(h1, price.product)
                  IN  Reply(h2, 400,
                         [error |->
                            "This promo code is valid only for "
                            \o Products[price.product] \o " ("
                            \o (IF price.interval = "month" THEN "monthly"
                                ELSE "yearly")
                            \o " billing) and does not apply to your selected "
                            \o price.interval \o " plan."])
        ELSE Reply(h, 400,
                   [error |->
                      "This promo code is not valid for the selected billing cycle"])

\* the restrictions checked price first
RestrictionsPriceFirst(h, req, price) ==
    IF ~req.code.coupon.applies_to.given THEN h
    ELSE LET h1 == PriceRestriction(h, req, price)
         IN  IF Responded(h1) \/ h1.failed THEN h1
             ELSE ProductRestriction(h1, req, price)

\* if (coupon.applies_to) {...}: product restrictions, then price restrictions
Restrictions(h, req, price) ==
    IF ~req.code.coupon.applies_to.given THEN h
    ELSE LET h1 == ProductRestriction(h, req, price)
         IN  IF Responded(h1) \/ h1.failed THEN h1
             ELSE PriceRestriction(h1, req, price)

\* the body of try in if (promotionCode) {...}
ValidatePromotionCode(h, req, price) ==
    LET h1 == PromotionCodesList(h, req.promotionCode)
    IN  IF h1.failed THEN h1
        ELSE IF ~req.code.found
        THEN Reply(h1, 400,
                   [error |-> "Promo code " \o req.promotionCode
                              \o " is invalid or inactive"])
        ELSE IF req.code.expired
        THEN Reply(h1, 400, [error |-> "This promotion code has expired"])
        ELSE
        LET h2 == CouponsRetrieve(h1)
        IN  IF h2.failed
            THEN Return(h2, 400,
                        [error |-> "Failed to retrieve promotion code details"])
            ELSE
            LET h3 == Restrictions(h2, req, price)
            IN  IF Responded(h3) \/ h3.failed THEN h3
                ELSE IF DiscountAmount(req.code.coupon, price) = 0
                THEN Reply(h3, 400,
                        [error |-> "This promo code does not provide any discount for the selected plan"])
                ELSE h3

\* catch (error) of the promotion code validation
ValidatePromotionCodeCatch(h) ==
    IF h.failed
    THEN Return(h, 500,
                [error |-> "Failed to validate promotion code. Please try again."])
    ELSE h

\* the response of a request that went through
SetupResponse(req, price, intentId, validated) ==
    LET coupon == req.code.coupon
        discount == IF validated THEN DiscountAmount(coupon, price) ELSE 0
    IN  [clientSecret |-> intentId \o "_secret",
         priceId |-> req.priceId,
         productId |-> price.product,
         originalAmount |-> price.unit_amount,
         discountAmount |-> discount,
         finalAmount |-> price.unit_amount - discount,
         promotionCode |-> IF validated THEN req.promotionCode ELSE "",
         billingCycle |-> price.interval,
         promoCodeInfo |->
             IF validated
             THEN [given |-> TRUE,
                   productName |-> Products[price.product],
                   billingCycle |-> price.interval,
                   discountType |-> IF coupon.percent_off # 0 THEN "percentage"
                                    ELSE "amount",
                   discountValue |-> IF coupon.percent_off # 0
                                     THEN Amount(coupon.percent_off)
                                     ELSE Amount(coupon.amount_off),
                   promotionCode |-> req.promotionCode]
             ELSE [given |-> FALSE]]

\* the body of try in POST
CheckoutSessionsTry(h, req) ==
    IF ~cfg.stripe THEN Reply(h, 500, [error |-> "Stripe is not configured"])
    ELSE
    LET h1 == RequestJson(h)
    IN  IF req.priceId = ""
        THEN Reply(h1, 400, [error |-> "Price ID is required"])
        ELSE IF req.userId = ""
        THEN Reply(h1, 400, [error |-> "User ID is required"])
        ELSE
        LET h2 == CustomerFor(h1, req.userId)
        IN  IF ~h1.failed /\ h2.failed
            THEN Return(h2, 500, [error |-> "Failed to create customer account"])
            ELSE
            LET h3 == PricesRetrieve(h2, req.priceId)
                price == Prices[req.priceId]
                h4 == IF req.promotionCode # "" /\ ~h3.failed
                      THEN ValidatePromotionCodeCatch(
                               ValidatePromotionCode(h3, req, price))
                      ELSE h3
            IN  IF Responded(h4) THEN h4
                ELSE
                LET validated == req.promotionCode # ""
                    id == "seti_" \o ToString(Len(h4.billing.intents) + 1)
                    metadata ==
                        IF validated
                        THEN [priceId |-> req.priceId, userId |-> req.userId,
                              promotionCode |-> req.promotionCode]
                        ELSE [priceId |-> req.priceId, userId |-> req.userId]
                    h5 == SetupIntentsCreate(h4, "cus_" \o req.userId, metadata)
                    h6 == ProductsRetrieve(h5, price.product)
                IN  Reply(h6, 200, SetupResponse(req, price, id, validated))

\* catch (error) of POST
CheckoutSessionsCatch(h) ==
    IF h.failed
    THEN [h EXCEPT !.resp = [status |-> 500,
                             body |-> [error |-> "Failed to create setup intent"]]]
    ELSE h

\* export async function POST(request) of checkout-sessions/route.ts
CheckoutSessions(req) ==
    CheckoutSessionsCatch(CheckoutSessionsTry(Begin(req), req))

-----------------------------------------------------------------------------
(* The state machine of the setup-intent endpoint *)

\* applies_to.products: prod_gone is a product the billing system no longer
\* has; prod_std is the product of the price asked for
ProductLists ==
    {Undefined, List(<<>>), List(<<"prod_ent">>),
     List(<<"prod_ent", "prod_basic">>), List(<<"prod_gone">>),
     List(<<"prod_std">>)}

\* applies_to.prices: price_std_m is the price asked for
PriceLists ==
    {Undefined, List(<<>>), List(<<"price_std_y">>), List(<<"price_std_m">>)}

AppliesTos ==
    {AppliesTo(FALSE, Undefined, Undefined)}
    \cup {AppliesTo(TRUE, p, q) : p \in ProductLists, q \in PriceLists}

\* amount_off and percent_off: 5.00 off, 20% off, nothing off
Discounts == {<<500, 0>>, <<0, 20>>, <<0, 0>>}

Unrestricted == AppliesTo(FALSE, Undefined, Undefined)

NoCode == PromotionCode(FALSE, FALSE, Coupon(Unrestricted, 0, 0))

Codes ==
    {NoCode}
    \cup {PromotionCode(TRUE, e, Coupon(a, d[1], d[2])) :
              e \in BOOLEAN, a \in AppliesTos, d \in Discounts}

\* requests carrying a promotion code: every code for the monthly Standard
\* price, codes without lists or with empty ones for every price, and
\* requests one call of which throws
CodedRequests ==
    {SetupRequest("price_std_m", "SAVE20", "ann@x.io", c, 0) : c \in Codes}
    \cup {SetupRequest(p, "SAVE20", "bob@x.io",
                       PromotionCode(TRUE, FALSE, Coupon(a, d[1], d[2])), 0) :
              p \in PriceIds,
              a \in {Unrestricted,
                     AppliesTo(TRUE, List(<<>>), Undefined),
                     AppliesTo(TRUE, List(<<>>), List(<<>>))},
              d \in Discounts}
    \cup {SetupRequest("price_std_m", "SAVE20", "bob@x.io",
                       PromotionCode(TRUE, FALSE, Coupon(a, 0, 20)), k) :
              a \in {AppliesTo(TRUE, List(<<"prod_ent", "prod_basic">>),
                               Undefined),
                     AppliesTo(TRUE, Undefined, List(<<"price_std_y">>)),
                     AppliesTo(TRUE, List(<<"prod_std">>),
                               List(<<"price_std_m">>))},
              k \in 1..MaxSetupCalls}

PlainRequests ==
    {SetupRequest(p, "", u, NoCode, 0) :
         p \in {"", "price_std_m", "price_day"},
         u \in {"", "ann@x.io", "bob@x.io"}}
    \cup {SetupRequest("price_std_m", "", "bob@x.io", NoCode, k) :
              k \in 1..MaxSetupCalls}

OnSetupIntent ==
    /\ clock <= MaxSetups
    /\ \E r \in PlainRequests : Served(r, CheckoutSessions(r))

OnSetupIntentWithCode ==
    /\ clock <= MaxSetups
    /\ \E r \in CodedRequests : Served(r, CheckoutSessions(r))

\* the endpoint with or without its billing client
InitSetup ==
    /\ InitCheckout
    /\ ~HashFound(sub["user_42"])

NextSetup ==
    \/ OnSetupIntent
    \/ OnSetupIntentWithCode

SpecSetup == InitSetup /\ [][NextSetup]_vars

-----------------------------------------------------------------------------
(* C17 *)

\* the last request asked the setup-intent endpoint, configured, to apply a
\* promotion code to a price for a user
Coded ==
    /\ last.req.delivery = "setup"
    /\ cfg.stripe
    /\ last.req.priceId # "" /\ last.req.userId # ""
    /\ last.req.promotionCode # ""

\* applies_to of the coupon of the last request's code
Applies == last.req.code.coupon.applies_to

\* the checks the code of the last request fails
FailsExistence == ~last.req.code.found

FailsExpiration == last.req.code.found /\ last.req.code.expired

FailsProduct ==
    /\ last.req.code.found
    /\ Applies.given /\ Applies.products.given
    /\ Applies.products.list # <<>>
    /\ ~Has(Applies.products.list, Prices[last.req.priceId].product)

FailsPrice ==
    /\ last.req.code.found
    /\ Applies.given /\ Applies.prices.given
    /\ ~Has(Applies.prices.list, last.req.priceId)

FailsDiscount ==
    /\ last.req.code.found
    /\ DiscountAmount(last.req.code.coupon, Prices[last.req.priceId]) = 0

\* the earliest check the code fails, "" when it passes all of them
EarliestFailing ==
    IF FailsExistence THEN "existence"
    ELSE IF FailsExpiration THEN "expiration"
    ELSE IF FailsProduct THEN "product"
    ELSE IF FailsPrice THEN "price"
    ELSE IF FailsDiscount THEN "discount"
    ELSE ""

\* the check a 400 of the last request reports, by its message
Rejection ==
    LET msg == last.resp.body.error
    IN  IF last.resp.status # 400 THEN ""
        ELSE IF Includes(msg, "is invalid or inactive") THEN "existence"
        ELSE IF msg = "This promotion code has expired" THEN "expiration"
        ELSE IF Includes(msg, "billing") THEN "price"
        ELSE IF \/ Includes(msg, "is valid only for")
                \/ msg = "This promo code is not valid for the selected plan."
        THEN "product"
        ELSE IF Includes(msg, "does not provide any discount") THEN "discount"
        ELSE "other"

\* C17: a request with a promotion code is rejected for the earliest check,
\* in the order existence, expiration, product, price, nonzero discount,
\* that its code fails; when no call throws it is rejected exactly when the
\* code fails a check; a rejected request creates no setup intent.
C17_EarliestFailingCheck ==
    Coded =>
        /\ Rejection \notin {"", "other"} =>
               /\ Rejection = EarliestFailing
               /\ billing.intents = last.before.billing.intents
               /\ Done(last.trace, "create", "setupIntent") = {}
        /\ ~Threw(last.trace) =>
               /\ EarliestFailing # "" => Rejection = EarliestFailing
               /\ EarliestFailing = "" =>
                      /\ last.resp.status = 200
                      /\ Len(billing.intents) =
                             Len(last.before.billing.intents) + 1

\* a code that is expired and whose coupon fails the product, the price and
\* the discount check as well: the rejection is the expiry's
C17_Witness ==
    /\ Coded
    /\ FailsExpiration /\ FailsProduct /\ FailsPrice /\ FailsDiscount
    /\ Rejection = "expiration"
    /\ billing.intents = <<>>

-----------------------------------------------------------------------------
(* C18 *)

\* the names of the allowed products that the billing system has and whose
\* retrieval did not throw
KnownAllowedNames ==
    {Products[id] :
        id \in {i \in DOMAIN Products :
                   /\ Has(Applies.products.list, i)
                   /\ ~\E k \in 1..Len(last.trace) :
                          /\ last.trace[k].kind = "product"
                          /\ last.trace[k].id = i
                          /\ ~last.trace[k].ok}}

\* C18 as stated: a request whose code's coupon has a non-empty products
\* list without the product of the price asked for is answered 400 with a
\* message that names the allowed products.
C18_RejectedNamingProducts ==
    (Coded /\ FailsProduct) =>
        /\ last.resp.status = 400
        /\ \E id \in DOMAIN Products :
               /\ Has(Applies.products.list, id)
               /\ Includes(last.resp.body.error, Products[id])

\* C18 as amended: such a request, when its code is not expired and the
\* coupon was retrieved, is answered 400 with the product rejection and no
\* setup intent; the message names every allowed product whose name the
\* billing system returned, and is the generic one when it returned none.
C18_RejectedNamingKnownProducts ==
    (/\ Coded /\ FailsProduct /\ ~FailsExpiration
     /\ Done(last.trace, "retrieve", "coupon") # {})
    => /\ last.resp.status = 400
       /\ Rejection = "product"
       /\ billing.intents = last.before.billing.intents
       /\ \A n \in KnownAllowedNames : Includes(last.resp.body.error, n)
       /\ KnownAllowedNames # {} =>
              Includes(last.resp.body.error, "is valid only for")
       /\ KnownAllowedNames = {} =>
              last.resp.body.error =
                  "This promo code is not valid for the selected plan."

\* a coupon for the Enterprise and the Basic product on a Standard price:
\* both names are in the message
C18_Witness ==
    /\ Coded /\ FailsProduct /\ ~FailsExpiration
    /\ Len(Applies.products.list) = 2
    /\ last.resp.status = 400
    /\ Includes(last.resp.body.error, "Auto-Analyst Enterprise and Basic")

-----------------------------------------------------------------------------
(* C19 *)

\* applies_to.prices of the code's coupon is present and empty
EmptyPrices ==
    /\ last.req.code.found
    /\ Applies.given /\ Applies.prices.given
    /\ Applies.prices.list = <<>>

\* applies_to.products of the code's coupon is present and empty
EmptyProducts ==
    /\ last.req.code.found
    /\ Applies.given /\ Applies.products.given
    /\ Applies.products.list = <<>>

\* C19: a code whose coupon has an empty prices list is never accepted,
\* whatever the price asked for: no setup intent is created, and the answer
\* is 400 when no call throws. An empty products list restricts nothing:
\* the product check never rejects, and the request goes through when the
\* code fails no other check and no call throws.
C19_EmptyPricesRejectEmptyProductsPass ==
    Coded =>
        /\ EmptyPrices =>
               /\ last.resp.status # 200
               /\ billing.intents = last.before.billing.intents
               /\ ~Threw(last.trace) =>
                      /\ last.resp.status = 400
                      /\ Rejection \in {"expiration", "product", "price"}
        /\ EmptyProducts =>
               /\ Rejection # "product"
               /\ (/\ ~Threw(last.trace)
                   /\ ~FailsExpiration /\ ~FailsPrice /\ ~FailsDiscount)
                  => last.resp.status = 200

\* a valid code with both lists empty, asked for the daily price: the
\* product check lets it pass and the price check turns it down
C19_Witness ==
    /\ Coded
    /\ EmptyPrices /\ EmptyProducts
    /\ ~FailsExpiration /\ ~FailsDiscount
    /\ last.req.priceId = "price_day"
    /\ last.resp.status = 400
    /\ last.resp.body.error =
           "This promo code is not valid for the selected billing cycle"

-----------------------------------------------------------------------------
(* C20 *)

\* the last request came without an authenticated session
Unauthenticated ==
    \/ last.req.delivery = "checkout" /\ ~last.req.session.present
    \/ last.req.delivery = "finalize" /\ last.req.token = ""

\* the last request changed nothing in the store or the billing system
NoMutation ==
    /\ Untouched
    /\ billing = last.before.billing
    /\ \A i \in 1..Len(last.trace) :
           last.trace[i].op \notin {"hset", "del", "create", "cancel"}

\* C20 as stated: a request without an authenticated session is answered
\* 400 or 401 and changes nothing.
C20_UnauthenticatedIs400Or401 ==
    Unauthenticated =>
        /\ last.resp.status \in {400, 401}
        /\ NoMutation

\* C20 as amended: a request without an authenticated session changes
\* nothing. The finalization endpoint answers it 401; the checkout session
\* endpoint answers it 500 when the billing client is unconfigured, 400 when
\* the price id is missing and 401 otherwise; either answers 500 when
\* reading the request or the session throws.
C20_UnauthenticatedChangesNothing ==
    Unauthenticated =>
        /\ NoMutation
        /\ last.resp.status =
               (IF Threw(last.trace) THEN 500
                ELSE IF last.req.delivery = "finalize" THEN 401
                ELSE IF ~cfg.stripe THEN 500
                ELSE IF last.req.priceId = "" THEN 400
                ELSE 401)

\* a checkout session request with a price and a user id but no session,
\* reaching a configured endpoint: 401, and no checkout session exists
C20_Witness ==
    /\ last.req.delivery = "checkout"
    /\ ~last.req.session.present
    /\ last.req.priceId # "" /\ last.req.userId = "user_7"
    /\ cfg.stripe
    /\ last.resp.status = 401
    /\ billing.sessions = <<>>

-----------------------------------------------------------------------------
(* C21 *)

\* the event types the switch answers without looking at a record
LoggedTypes ==
    {"checkout.session.completed", "customer.subscription.trial_will_end",
     "payment_intent.requires_action"}

\* the event types the switch has a case for
CaseTypes ==
    LoggedTypes \cup SyncingTypes \cup IntentTypes
    \cup {"customer.subscription.deleted", "invoice.payment_failed",
          "setup_intent.setup_failed"}

\* the dispatch table marks the event as one it does not act on
Inapplicable(ev) ==
    \/ ev.type \in LoggedTypes
    \/ ev.type \notin CaseTypes
    \/ ev.type = "invoice.payment_failed" /\ ev.reason # "subscription_cycle"
    \/ ev.type \in IntentTypes /\ ~ev.flag

\* the calls of the last request, thrown ones included, that write or delete
\* a store key or reach the billing system
Commands ==
    {i \in 1..Len(last.trace) :
        \/ last.trace[i].op \in {"hset", "del", "cancel", "create"}
        \/ last.trace[i].kind = "stripe"}

\* the user a failure event names: the one the index maps the invoice's
\* customer to, or the one in the payment intent's metadata
FailureUser ==
    IF last.req.ev.type = "invoice.payment_failed" THEN Resolved
    ELSE IF last.req.ev.type \in IntentTypes /\ last.req.ev.flag
    THEN last.req.ev.metaUser
    ELSE ""

ForcedStatus(type) ==
    CASE type = "invoice.payment_failed" -> "past_due"
      [] type = "payment_intent.payment_failed" -> "payment_failed"
      [] type = "payment_intent.canceled" -> "canceled"
      [] OTHER -> ""

\* C21: an event the dispatch table marks as inapplicable (checkout
\* completed, trial will end, payment intent requires action, an unrecognized
\* type; invoice payment failed for a billing reason other than a recurring
\* cycle; payment intent failed or canceled without the trial mark) makes no
\* store write and sends nothing to the billing system. When the gating
\* condition holds and the event names a user, the handler run to its
\* acknowledgement leaves that user's credit total at 0 and the status at
\* past_due, payment_failed or canceled respectively.
C21_InapplicableWritesNothing ==
    /\ (Verified /\ last.dispatched /\ Inapplicable(last.req.ev))
           => /\ Commands = {}
              /\ Writes = {} /\ Cancels = {}
    /\ \A u \in Users :
           (Verified /\ Completed /\ ~Inapplicable(last.req.ev)
              /\ last.req.ev.type \in IntentTypes \cup {"invoice.payment_failed"}
              /\ FailureUser = u)
           => /\ Field(cred[u], "total") = "0"
              /\ Stored(u) = ForcedStatus(last.req.ev.type)
              /\ Cardinality(Writes) = 2

\* a failed payment intent without the trial mark, naming a user who has 500
\* credits: acknowledged with no call made, the credits still there
C21_Witness ==
    /\ Verified /\ Completed
    /\ last.req.ev.type = "payment_intent.payment_failed"
    /\ ~last.req.ev.flag
    /\ last.req.ev.metaUser = "user_42"
    /\ last.trace = <<>>
    /\ Field(cred["user_42"], "total") = "500"
    /\ Stored("user_42") = "trialing"

-----------------------------------------------------------------------------
(* C22 *)

\* the step handles a verified 'invoice payment succeeded' event, whose
\* subscription belongs to a mapped customer, to a {received: true} answer
PaidStep ==
    /\ last'.req.delivery = "verified"
    /\ last'.req.ev.type = "invoice.payment_succeeded"
    /\ last'.dispatched /\ last'.resp.received
    /\ EventCustomer(last'.req.ev) \in DOMAIN index
    /\ index[EventCustomer(last'.req.ev)] # ""

\* C22: an 'invoice payment succeeded' event for a mapped customer stores the
\* status active when the billing reason is a recurring cycle and the status
\* the billing system holds for the subscription for every other billing
\* reason; it writes the subscription record of that user only and leaves
\* every credit record as it was, zeroed credits included.
C22_PaidSyncsStatusOnly ==
    [][PaidStep =>
          LET ev == last'.req.ev
              u == index[EventCustomer(ev)]
          IN  /\ Field(sub'[u], "status") =
                     IF ev.reason = "subscription_cycle" THEN "active"
                     ELSE stripeSubs[ev.subscription].status
              /\ cred' = cred
              /\ \A v \in Users \ {u} : sub'[v] = sub[v]
              /\ Done(last'.trace, "hset", "credits") = {}
              /\ \A c \in Done(last'.trace, "hset", "subscription") : c.id = u
              /\ Cardinality(Done(last'.trace, "hset", "subscription")) = 1
              /\ Done(last'.trace, "cancel", "stripe") = {}]_vars

\* a recurring payment succeeding after a failed one had zeroed the credits:
\* the status is active again and the credit total is still 0
C22_Witness ==
    /\ Verified /\ Completed
    /\ last.req.ev.type = "invoice.payment_succeeded"
    /\ last.req.ev.reason = "subscription_cycle"
    /\ Stored("user_42") = "active"
    /\ Field(sub["user_42"], "paymentFailedAt") = ISO(1)
    /\ Field(cred["user_42"], "total") = "0"
    /\ Field(cred["user_42"], "lastUpdate") = ISO(1)

-----------------------------------------------------------------------------
(* C23 *)

\* the calls of the last request, thrown ones included, that write or
\* delete a store key
StoreWrites ==
    {last.trace[i] : i \in {j \in 1..Len(last.trace) :
                               last.trace[j].op \in {"hset", "set", "del"}}}

\* the store keys those calls name
KeysWritten == {<<c.kind, c.id>> : c \in StoreWrites}

\* the customer index as the endpoint found it
IndexAtStart == [c \in Customers |-> IF c = "cus_1" THEN "user_42" ELSE ""]

\* C23: handling one webhook event writes at most two store keys, the
\* subscription hash and the credit hash of one user; it writes no profile
\* hash, no Customer Index entry and no record of a second user, and deletes
\* no key.
C23_AtMostTwoKeysOfOneUser ==
    Verified =>
        /\ Cardinality(KeysWritten) <= 2
        /\ \A c \in StoreWrites :
               c.op = "hset" /\ c.kind \in {"subscription", "credits"}
        /\ \A c, d \in StoreWrites : c.id = d.id
        /\ \A i \in 1..Len(last.trace) :
               last.trace[i].kind \in {"index", "subscription", "credits", "stripe"}
        /\ index = IndexAtStart

\* a deletion event wrote both hashes of the one user it resolved, the
\* credit hash twice, and the index still maps the customer
C23_Witness ==
    /\ Verified /\ Completed
    /\ last.req.ev.type = "customer.subscription.deleted"
    /\ KeysWritten = {<<"subscription", "user_42">>, <<"credits", "user_42">>}
    /\ Cardinality(Writes) = 3
    /\ index["cus_1"] = "user_42"
    /\ sub["user_7"] = NoHash /\ cred["user_7"] = NoHash

-----------------------------------------------------------------------------
(* C24 *)

\* the fields of the subscription record that describe the plan bought
PlanFields ==
    {"plan", "planType", "amount", "interval", "purchaseDate", "renewalDate",
     "stripeCustomerId", "stripeSubscriptionId"}

\* f is in both hashes with one value, or in neither
Kept(a, b, f) ==
    /\ f \in DOMAIN a <=> f \in DOMAIN b
    /\ Field(a, f) = Field(b, f)

\* the step handles a verified webhook event
WebhookStep == last'.req.delivery = "verified" /\ last'.dispatched

\* C24: a webhook handler other than that of 'subscription deleted' writes
\* the subscription record by merging and names none of plan, planType,
\* amount, interval, purchaseDate, renewalDate, stripeCustomerId and
\* stripeSubscriptionId, so every user's record keeps these fields as they
\* were before the event; the handler of 'subscription deleted' is the only
\* one that writes any of them.
C24_PlanFieldsKeptButOnDelete ==
    [][WebhookStep =>
          IF last'.req.ev.type # "customer.subscription.deleted"
          THEN /\ \A u \in Users : \A f \in PlanFields : Kept(sub[u], sub'[u], f)
               /\ \A u \in Users : WrittenIn(last'.trace, u) \cap PlanFields = {}
               /\ \A u \in Users : DOMAIN sub[u] \subseteq DOMAIN sub'[u]
          ELSE \A u \in Users :
                   WrittenIn(last'.trace, u) # {}
                       => /\ WrittenIn(last'.trace, u) \cap PlanFields
                              = PlanFields \ {"purchaseDate", "renewalDate"}
                          /\ Cancelled(sub'[u])]_vars

\* an update to canceled followed by a failed recurring invoice: the status
\* is past_due and the record still describes the Standard plan bought
C24_Witness ==
    /\ Verified /\ Completed
    /\ last.req.ev.type = "invoice.payment_failed"
    /\ Stored("user_42") = "past_due"
    /\ Field(sub["user_42"], "canceledAt") = ISO(1)
    /\ \A f \in PlanFields : Field(sub["user_42"], f) = TrialSubscription[f]

-----------------------------------------------------------------------------
(* Operations running concurrently. Each await of a handler is a point     *)
(* where another request's handler may run, so two requests for one user   *)
(* interleave call by call. An operation in flight is past the lookups     *)
(* that resolve its user and stands before its next call on the user's     *)
(* records: pc numbers that call, 0 once the response is sent; found and   *)
(* status hold what its hgetall read.                                      *)

Racer == "user_42"

InFlight(req) == [req |-> req, pc |-> 1, found |-> FALSE, status |-> ""]

\* what an operation is: the event type of a webhook request, or finalize
Kind(o) ==
    IF o.req.delivery = "finalize" THEN "finalize" ELSE o.req.ev.type

\* a handler run on the store as it is now
Resume(s, c) ==
    [sub |-> s, cred |-> c, stripe |-> stripeSubs, billing |-> billing,
     trace |-> <<>>, failed |-> FALSE, failAt |-> 0, dispatched |-> TRUE,
     resp |-> [status |-> 0, received |-> FALSE]]

\* case 'customer.subscription.deleted', one await at a time
DeletedCall(o, h, now) ==
    CASE o.pc = 1 ->
             LET found == HashFound(h.sub[Racer])
             IN  [o |-> [o EXCEPT !.found = found,
                                  !.pc = IF found THEN 2 ELSE 0],
                  h |-> RedisHGetAll(h, Racer)]
      [] o.pc = 2 ->
             [o |-> [o EXCEPT !.pc = 3], h |-> SetZeroCredits(h, Racer, now)]
      [] o.pc = 3 ->
             [o |-> [o EXCEPT !.pc = 4],
              h |-> HSetSub(h, Racer, CancelData(now))]
      [] OTHER ->
             [o |-> [o EXCEPT !.pc = 0],
              h |-> HSetCred(h, Racer, DeletedCredits(now))]

\* case 'invoice.payment_failed', one await at a time
InvoiceFailedCall(o, h, now) ==
    CASE o.pc = 1 ->
             [o |-> [o EXCEPT !.pc = 2], h |-> SetZeroCredits(h, Racer, now)]
      [] OTHER ->
             [o |-> [o EXCEPT !.pc = 0],
              h |-> HSetSub(h, Racer, PaymentFailedData(now))]

\* case 'customer.subscription.updated', one await at a time
UpdatedCall(o, h, now) ==
    CASE o.pc = 1 ->
             [o |-> [o EXCEPT !.status = Field(h.sub[Racer], "status"),
                              !.pc = 2],
              h |-> RedisHGetAll(h, Racer)]
      [] OTHER ->
             [o |-> [o EXCEPT !.pc = 0],
              h |-> HSetSub(h, Racer,
                            UpdateData(o.status, o.req.ev.status, now))]

\* the store calls of the finalization, one await at a time
FinalizeCall(o, h, t) ==
    CASE o.pc = 1 ->
             LET found == HashFound(h.sub[Racer])
             IN  [o |-> [o EXCEPT !.found = found,
                                  !.pc = IF found THEN 2 ELSE 3],
                  h |-> RedisHGetAll(h, Racer)]
      [] o.pc = 2 ->
             [o |-> [o EXCEPT !.pc = 3], h |-> RedisDel(h, Racer)]
      [] o.pc = 3 ->
             [o |-> [o EXCEPT !.pc = 4],
              h |-> HSetSub(h, Racer,
                            SubscriptionData(NewSubId(h.stripe), o.req.created,
                                             o.req.priceId,
                                             o.req.promoCodeInfo, t))]
      [] OTHER ->
             [o |-> [o EXCEPT !.pc = 0],
              h |-> HSetCred(h, Racer,
                        CreditData(Credits(Products[Prices[o.req.priceId].product]),
                                   t))]

\* the whole operation run with nothing in between
Alone(o, s, c) ==
    IF Kind(o) = "finalize"
    THEN CreateSubscriptionTry(Resume(s, c), o.req, 0)
    ELSE Dispatch(Resume(s, c), o.req.ev, ISO(0))

\* the requests that race: events of the user's customer and subscription,
\* and the user's finalization of a Standard plan
RacingRequests ==
    {Request("verified", e, 0) :
        e \in {Event("customer.subscription.deleted", "cus_1", "", "", "",
                     FALSE, ""),
               Event("invoice.payment_failed", "", "", "sub_1",
                     "subscription_cycle", FALSE, ""),
               Event("customer.subscription.updated", "cus_1", "active", "",
                     "", FALSE, ""),
               Event("customer.subscription.updated", "cus_1", "past_due", "",
                     "", FALSE, "")}}
    \cup {FinalizeRequest(Racer, "seti_1", "price_std_m", NoPromo, GoodIntent,
                          FALSE, CreatedActive, 0)}

\* operation p in flight has made the call r: the store is as the call left
\* it, and the operation stands before its next call
Advance(p, r) ==
    /\ inflight' = [inflight EXCEPT !.ops[p] = r.o, !.order = Append(@, p)]
    /\ sub' = r.h.sub
    /\ cred' = r.h.cred
    /\ clock' = clock + 1
    /\ UNCHANGED <<cfg, index, stripeSubs, billing, reported, last>>

\* the operations in flight of one kind that have a call left to make
Pending(kind) ==
    {p \in DOMAIN inflight.ops :
        inflight.ops[p].pc # 0 /\ Kind(inflight.ops[p]) = kind}

OnDeletedCall ==
    /\ inflight.ops # <<>>
    /\ \E p \in Pending("customer.subscription.deleted") :
           Advance(p, DeletedCall(inflight.ops[p], Resume(sub, cred), ISO(clock)))

OnInvoiceFailedCall ==
    /\ inflight.ops # <<>>
    /\ \E p \in Pending("invoice.payment_failed") :
           Advance(p, InvoiceFailedCall(inflight.ops[p], Resume(sub, cred),
                                        ISO(clock)))

OnUpdatedCall ==
    /\ inflight.ops # <<>>
    /\ \E p \in Pending("customer.subscription.updated") :
           Advance(p, UpdatedCall(inflight.ops[p], Resume(sub, cred), ISO(clock)))

OnFinalizeCall ==
    /\ inflight.ops # <<>>
    /\ \E p \in Pending("finalize") :
           Advance(p, FinalizeCall(inflight.ops[p], Resume(sub, cred), clock))

\* two requests for one user arrive together; the user has the records of a
\* trial, or none
InitRace ==
    /\ cfg = [stripe |-> TRUE, secret |-> TRUE]
    /\ index = [c \in Customers |-> IF c = "cus_1" THEN Racer ELSE ""]
    /\ \E r \in {<<NoHash, NoHash>>, <<TrialSubscription, TrialCredits>>} :
           /\ sub = [u \in Users |-> IF u = Racer THEN r[1] ELSE NoHash]
           /\ cred = [u \in Users |-> IF u = Racer THEN r[2] ELSE NoHash]
    /\ stripeSubs = [i \in SubIds |->
                       IF i = "sub_1"
                       THEN [customer |-> "cus_1", status |-> "trialing"]
                       ELSE [customer |-> "cus_9", status |-> "active"]]
    /\ billing = NoBilling
    /\ \E a, b \in RacingRequests :
           inflight = [ops |-> <<InFlight(a), InFlight(b)>>, order |-> <<>>,
                       start |-> [sub |-> sub, cred |-> cred]]
    /\ clock = 1
    /\ reported = [u \in Users |->
                     [status |-> Field(sub[u], "status"), by |-> "", reason |-> ""]]
    /\ last = [req |-> Request("none", Event("", "", "", "", "", FALSE, ""), 0),
               resp |-> [status |-> 0, received |-> FALSE],
               trace |-> <<>>, dispatched |-> FALSE]

NextRace ==
    \/ OnDeletedCall
    \/ OnInvoiceFailedCall
    \/ OnUpdatedCall
    \/ OnFinalizeCall

SpecRace == InitRace /\ [][NextRace]_vars

-----------------------------------------------------------------------------
(* C25 *)

\* the fields stamped with the time of the call that writes them
RaceStamps == TimestampFields \cup {"lastReset", "created"}

Alike(a, b) ==
    /\ DOMAIN a = DOMAIN b
    /\ \A f \in DOMAIN a \ RaceStamps : a[f] = b[f]

\* both operations in flight have sent their response
AllDone ==
    /\ inflight.ops # <<>>
    /\ \A p \in DOMAIN inflight.ops : inflight.ops[p].pc = 0

\* the records after operation a run alone and then operation b run alone
Sequel(a, b) ==
    LET h == Alone(a, inflight.start.sub, inflight.start.cred)
    IN  Alone(b, h.sub, h.cred)

\* the user's records are, stamps apart, those the run h left
SameAs(h) ==
    /\ Alike(sub[Racer], h.sub[Racer])
    /\ Alike(cred[Racer], h.cred[Racer])

\* the calls of operation p all came before those of operation q
OneAfterTheOther(p, q) ==
    \A i, j \in DOMAIN inflight.order :
        (inflight.order[i] = p /\ inflight.order[j] = q) => i < j

\* the calls taken one await at a time add up to the handlers: a schedule
\* that runs one operation after the other leaves what the two handlers
\* leave when run in that order
RaceSerialAgrees ==
    AllDone =>
        /\ OneAfterTheOther(1, 2)
               => SameAs(Sequel(inflight.ops[1], inflight.ops[2]))
        /\ OneAfterTheOther(2, 1)
               => SameAs(Sequel(inflight.ops[2], inflight.ops[1]))

\* C25 as stated: when two operations on one user run with their store calls
\* interleaved, the subscription and credit records they leave are those of
\* the two operations run one after the other in one of the two orders; no
\* interleaving leaves a canceled or past_due status with a credit total
\* other than 0.
C25_InterleavingSerializable ==
    AllDone =>
        /\ \/ SameAs(Sequel(inflight.ops[1], inflight.ops[2]))
           \/ SameAs(Sequel(inflight.ops[2], inflight.ops[1]))
        /\ ~ /\ Stored(Racer) \in {"canceled", "past_due"}
             /\ Field(cred[Racer], "total") \notin {"", "0"}

-----------------------------------------------------------------------------
(* Redelivery: the billing system delivers an event again until a delivery *)
(* is answered with success. One event is delivered here, to a configured  *)
(* endpoint, until then; any call of a delivery may throw, and a delivery  *)
(* in which none does stays possible.                                      *)

\* the first delivery of an event
FirstDelivery ==
    /\ last.req.delivery = "none"
    /\ \E type \in EventTypes : \E e \in EventsOf(type) : \E k \in 0..MaxCalls :
           Handle(Request("verified", e, k))

\* the event delivered again after a 500, a call throwing again
RedeliverFailing ==
    /\ clock <= MaxClock
    /\ last.req.delivery = "verified" /\ last.resp.status = 500
    /\ \E k \in 1..MaxCalls : Handle(Request("verified", last.req.ev, k))

\* the event delivered again after a 500, no call throwing
RedeliverClean ==
    /\ last.req.delivery = "verified" /\ last.resp.status = 500
    /\ Handle(Request("verified", last.req.ev, 0))

InitRedelivery ==
    /\ cfg = [stripe |-> TRUE, secret |-> TRUE]
    /\ index = [c \in Customers |-> IF c = "cus_1" THEN "user_42" ELSE ""]
    /\ \E s \in {NoHash, TrialSubscription} :
           sub = [u \in Users |-> IF u = "user_42" THEN s ELSE NoHash]
    /\ \E c \in {NoHash, TrialCredits} :
           cred = [u \in Users |-> IF u = "user_42" THEN c ELSE NoHash]
    /\ \E s \in {"trialing", "active"} :
           stripeSubs = [i \in SubIds |->
                           IF i = "sub_1"
                           THEN [customer |-> "cus_1", status |-> s]
                           ELSE [customer |-> "cus_9", status |-> "active"]]
    /\ billing = NoBilling
    /\ inflight = [ops |-> <<>>, order |-> <<>>,
                   start |-> [sub |-> sub, cred |-> cred]]
    /\ clock = 1
    /\ reported = [u \in Users |->
                     [status |-> Field(sub[u], "status"), by |-> "", reason |-> ""]]
    /\ last = [req |-> Request("none", Event("", "", "", "", "", FALSE, ""), 0),
               resp |-> [status |-> 0, received |-> FALSE],
               trace |-> <<>>, dispatched |-> FALSE]

NextRedelivery ==
    \/ FirstDelivery
    \/ RedeliverFailing
    \/ RedeliverClean

\* the last delivery was answered 500: the event will be delivered again
Unanswered == last.req.delivery = "verified" /\ last.resp.status = 500

\* The store and the billing system answer again at some point: weak
\* fairness of RedeliverClean, WF_vars(RedeliverClean). RedeliverClean is
\* enabled exactly in the Unanswered states and every step of it leaves
\* them, so the condition is written on the states.
SpecRedelivery ==
    InitRedelivery /\ [][NextRedelivery]_vars /\ []<>(~Unanswered)

-----------------------------------------------------------------------------
(* C26 *)

\* the last delivery threw after a store write or a cancellation of its
\* handling had taken effect
FailedPartWay ==
    /\ HandlerThrew
    /\ Writes \cup Cancels # {}

\* the records one handling of the event without a failing call leaves
FailureFree ==
    Dispatch(Resume(inflight.start.sub, inflight.start.cred), last.req.ev,
             ISO(0))

\* the last delivery was answered with success and every user's records
\* are, stamps apart, the failure-free ones
Converged ==
    /\ Verified /\ last.resp.status = 200
    /\ \A u \in Users : /\ Alike(sub[u], FailureFree.sub[u])
                        /\ Alike(cred[u], FailureFree.cred[u])

\* the last delivery was answered with success after a part-way failure:
\* it follows a delivery answered 500, or it failed part-way itself
SucceededAfterFailure ==
    /\ Verified /\ last.resp.status = 200
    /\ clock > 2 \/ FailedPartWay

\* C26 as stated: when the handling of an event fails part-way and the event
\* is delivered again until a delivery is answered with success, the
\* subscription and credit records end up, stamps apart, as one failure-free
\* handling of the event leaves them. No delivery follows the one answered
\* with success, so the records at that answer are the final ones.
C26_RedeliveryConverges ==
    SucceededAfterFailure => Converged

\* C26 as amended: the same for every event type but 'setup intent failed',
\* and the successful answer does come; a handling of that type that fails
\* part-way is answered {received: true}, so the event is not delivered
\* again.
C26_RedeliveryConvergesButSetupIntent ==
    /\ [](SucceededAfterFailure
              /\ last.req.ev.type # "setup_intent.setup_failed" => Converged)
    /\ (FailedPartWay /\ last.req.ev.type # "setup_intent.setup_failed")
           ~> Converged
    /\ [](FailedPartWay /\ last.req.ev.type = "setup_intent.setup_failed"
              => last.resp = [status |-> 200, received |-> TRUE])

\* a deletion delivered a second time, the first having been answered 500:
\* both records are as a failure-free deletion leaves a trial's
C26_Witness ==
    /\ Converged
    /\ clock = 3
    /\ last.req.ev.type = "customer.subscription.deleted"
    /\ last.req.failAt = 0
    /\ Cardinality(Writes) = 3
    /\ Field(cred["user_42"], "subscriptionDeleted") = "true"
    /\ Field(sub["user_42"], "purchaseDate") = ISO(0)

-----------------------------------------------------------------------------
(* C27 *)

\* the subscriptions the finalization endpoint created in the billing system
CreatedByFinalization == DOMAIN stripeSubs \ SubIds

\* C27 as stated: however often the finalization request is submitted for
\* one succeeded setup intent (every finalization request here names the
\* setup intent seti_1), at most one subscription is created in the billing
\* system.
C27_AtMostOneSubscription ==
    Cardinality(CreatedByFinalization) <= 1

-----------------------------------------------------------------------------
(* C28 *)

\* the users whose stored subscription is one the finalization endpoint
\* created for the customer c
SubscribedAs(c) ==
    {u \in Users :
        /\ Field(sub[u], "id") \in CreatedByFinalization
        /\ stripeSubs[Field(sub[u], "id")].customer = c}

\* the last request was a 'subscription deleted' event of customer c, or an
\* 'invoice payment failed' event of a recurring cycle for a subscription of
\* c, handled to its acknowledgement
LapseOf(c) ==
    /\ Verified /\ Completed
    /\ \/ /\ last.req.ev.type = "customer.subscription.deleted"
          /\ last.req.ev.customer = c
       \/ /\ last.req.ev.type = "invoice.payment_failed"
          /\ last.req.ev.reason = "subscription_cycle"
          /\ EventCustomer(last.req.ev) = c

\* C28 as stated: after a successful finalization the Customer Index maps
\* the customer of the subscription created to the user who finalized, and
\* a later 'subscription deleted' or 'invoice payment failed' event of that
\* customer leaves that user with a credit total of 0.
C28_FinalizedCustomerIndexed ==
    /\ FinalizedOk => index[last.req.intent.customer] = last.req.token
    /\ \A c \in Customers : \A u \in SubscribedAs(c) :
           LapseOf(c) => Field(cred[u], "total") = "0"

-----------------------------------------------------------------------------
(* C29 *)

\* the last request's stripe.subscriptions.create carried a discount
DiscountAttached ==
    \E c \in Done(last.trace, "create", "subscription") : "discounts" \in c.fields

\* what the setup-intent endpoint recorded in the setup intent
Recorded(f) == Field(last.req.intent.metadata, f)

\* C29 as stated: a successful finalization subscribes the customer to the
\* price recorded in the setup intent's metadata; it attaches a discount only
\* when the promotion code supplied is the one recorded there; and
\* promoCodeApplied is true in the response only if a discount was attached.
C29_FinalizesWhatWasSetUp ==
    FinalizedOk =>
        /\ Field(sub[last.req.token], "priceId") = Recorded("priceId")
        /\ DiscountAttached
               => /\ Recorded("promotionCode") # ""
                  /\ last.req.promoCodeInfo.promotionCode
                         = Recorded("promotionCode")
        /\ last.resp.body.promoCodeApplied = "true" => DiscountAttached

-----------------------------------------------------------------------------
(* C30 *)

\* the last request was answered by the setup-intent endpoint with success
SetUpOk == last.req.delivery = "setup" /\ last.resp.status = 200

\* C30 as stated: in every successful response of the setup-intent endpoint
\* finalAmount = originalAmount - discountAmount and 0 <= finalAmount <=
\* originalAmount; discountAmount is 0 when no promotion code was supplied
\* and positive when one was validated: amount_off as it is, otherwise
\* percent_off of the unit amount rounded to the nearest integer.
C30_FinalAmountInRange ==
    SetUpOk =>
        LET body == last.resp.body
            coupon == last.req.code.coupon
            unit == Prices[last.req.priceId].unit_amount
        IN  /\ body.originalAmount = unit
            /\ body.finalAmount = body.originalAmount - body.discountAmount
            /\ 0 <= body.finalAmount /\ body.finalAmount <= body.originalAmount
            /\ last.req.promotionCode = "" => body.discountAmount = 0
            /\ last.req.promotionCode # ""
                   => /\ body.discountAmount > 0
                      /\ body.discountAmount =
                             IF coupon.amount_off # 0 THEN coupon.amount_off
                             ELSE (unit * coupon.percent_off + 50) \div 100

====
